---- MODULE Spec2Model ----
(***************************************************************************)
(* RenovoGo LLM backend: the trust scorer (computeTrust, two revisions)    *)
(* and the dialogue policy of server.js (session store, postRules,         *)
(* chooseObjection, applyAliPurchaseDecision, repetitionGuard).            *)
(*                                                                         *)
(* Texts.  Every detector of the sources is a regular expression tested    *)
(* against a text.  A text is modelled as the set of vocabulary phrases it *)
(* is made of (the concrete text is the phrases joined by single spaces,   *)
(* in the order of Vocabulary); a regular expression is modelled as the    *)
(* set of vocabulary phrases it matches, and `test` as a non-empty         *)
(* intersection.  No expression of the sources matches across the          *)
(* junction of two vocabulary phrases.                                      *)
(*                                                                         *)
(* Scores.  The scorer adds 0.5 for courtesy, so every score is carried in *)
(* half points (40 is 20.0, 41 is 20.5) until Math.round.                  *)
(***************************************************************************)
EXTENDS Integers, Sequences, FiniteSets, TLC

\* ------------------------------------------------------------------ bounds
MaxHist == 2

\* -------------------------------------------------------------- vocabulary
Vocabulary ==
  << "zdravstvuyte", "pozhaluysta", "srochno", "inache", "potoropites",
     "usdt", "predoplata", "garantiruyu", "schet", "sayt", "demand",
     "kontrakt", "zavtra", "zarplata", "350", "rekvizity", "semya",
     "okey_ishchite", "slot", "tsena", "bank", "kak_vas_zovut", "chto_nuzhno",
     "ponimayu", "reputatsiya", "partner", "kak_budete_gotovy", "bystree",
     "eur", "2025", "Brno", "grafik", "vakansiya", "gorod", "RenovoGo",
     "employer_details", "zhilyo", "chto_delat", "rekvizity_dlya_invoysa",
     "work_permit", "5_minut" >>

Test(rx, text) == (rx \cap text) # {}

Pts(n) == 2 * n

\* ------------------------------------------- regular expressions (trust.js)
\* politenessScoreLite, lines 122-125
RxPoliteness ==
  [ Greet      |-> {"zdravstvuyte"},
    Thanks     |-> {"pozhaluysta"},
    NiceToMeet |-> {},
    Renovogo   |-> {"RenovoGo"} ]
\* pressureScore, lines 132-133
RxPressure ==
  [ Urgent    |-> {"srochno"},
    Ultimatum |-> {"inache"} ]
\* unrealisticTimeline, lines 139-140
RxTimeline ==
  [ TalksDocs |-> {"kontrakt", "slot"},
    Fast      |-> {"zavtra"} ]
\* concretenessScore, lines 148-152
RxConcrete ==
  [ Number   |-> {"350", "5_minut"},
    Currency |-> {"eur"},
    Month    |-> {},
    Year     |-> {"2025"},
    City     |-> {"Brno"} ]
\* toneFromHistory, line 164
RxObseq ==
  [ Yes |-> {"okey_ishchite"},
    Go  |-> {"okey_ishchite"} ]
RxObseqYesLegacy == {"okey_ishchite"}
\* textSignals, lines 175-190
RxSignals ==
  [ Crypto        |-> {"usdt"},
    Upfront       |-> {"predoplata"},
    Guarantee     |-> {"garantiruyu"},
    RedPressure   |-> {"potoropites"},
    Embassy       |-> {},
    SalaryWord    |-> {"zarplata"},
    Fee350        |-> {"350"},
    Requisite     |-> {"rekvizity", "rekvizity_dlya_invoysa"},
    DemandLatin   |-> {"demand"},
    BankPay       |-> {"schet", "rekvizity_dlya_invoysa"},
    Website       |-> {"sayt"},
    Demand        |-> {"demand"},
    Contract      |-> {"kontrakt"},
    TestCandidate |-> {},
    Postpone      |-> {} ]
\* businessFocusScore, lines 198-203
RxBiz ==
  [ Vacancy  |-> {"vakansiya"},
    Salary   |-> {"zarplata"},
    Housing  |-> {"zhilyo"},
    Schedule |-> {"grafik"},
    Location |-> {"gorod"},
    Docs     |-> {"demand", "kontrakt"} ]
PERSONAL_RX      == {"semya"}
COURTESY_RX      == {"pozhaluysta"}
\* dialogMicroCredits, lines 359-367
KEY_REGEXPS ==
  [ vacancy   |-> {"vakansiya"},
    salary    |-> {"zarplata"},
    housing   |-> {"zhilyo"},
    schedule  |-> {"grafik"},
    location  |-> {"gorod"},
    documents |-> {"demand", "kontrakt"},
    website   |-> {"sayt"} ]
RxPay            == {"predoplata", "schet", "rekvizity", "rekvizity_dlya_invoysa"}

\* ------------------------------------------ regular expressions (server.js)
\* postRules, lines 523-611
RxPostRules ==
  [ WhoAreYou        |-> {"kak_vas_zovut"},
    Registration     |-> {"slot"},
    AskedSalary      |-> {"zarplata"},
    AskedHouse       |-> {"zhilyo"},
    AskedHours       |-> {"grafik"},
    AskedLoc         |-> {"gorod"},
    AskedWhatJob     |-> {"chto_delat"},
    WhatNeeded       |-> {"chto_nuzhno"},
    PayChannel       |-> {"usdt", "bank"},
    PayWord          |-> {"predoplata", "schet", "rekvizity_dlya_invoysa"},
    ObjectionTrigger |-> {"predoplata", "schet", "tsena", "rekvizity_dlya_invoysa"} ]
\* craftHumanGreeting, line 358
RxIntro == {"RenovoGo"}
\* chooseObjection, lines 476-479
RxObjection ==
  [ PriceTalk   |-> {"tsena", "eur"},
    Permit      |-> {"work_permit"},
    Slots       |-> {"slot"},
    MentionsPay |-> {"predoplata", "schet", "bank", "rekvizity_dlya_invoysa"} ]
\* evaluateObjectionHandling, lines 725-731
RxHandling ==
  [ Empathy    |-> {"ponimayu"},
    Value      |-> {"reputatsiya"},
    SmallStart |-> {},
    Mission    |-> {"partner"},
    SoftClose  |-> {"kak_budete_gotovy"} ]
\* evaluateCryptoPitch, lines 742-744
RxPitch ==
  [ BankDays   |-> {},
    BankDaysEn |-> {},
    FiveMin    |-> {"5_minut"},
    Faster     |-> {"bystree"} ]

\* ------------------------------------------------------- evidence tiers
HARD_PROOFS    == {"demand_letter", "coop_contract_pdf", "contract_pdf"}
MEDIUM_PROOFS  == {"website", "company_registry", "registry_proof",
                   "visa_sample", "reviews"}
SUPPORT_PROOFS == {"sample_contract_pdf", "price_breakdown", "slot_plan", "nda",
                   "invoice_template", "business_card", "presentation", "video"}

\* String(e).trim().toLowerCase() on the raw spellings the model feeds in.
TrimLower(e) ==
  CASE e = " Demand_Letter " -> "demand_letter"
    [] e = "Card"            -> "card"
    [] OTHER                 -> e

Min(a, b) == IF a < b THEN a ELSE b
Max(a, b) == IF a > b THEN a ELSE b

RECURSIVE SeqSum(_)
SeqSum(s) == IF s = << >> THEN 0 ELSE Head(s) + SeqSum(Tail(s))

\* Array.prototype.slice(-n)
SliceLast(s, n) == SubSeq(s, Max(1, Len(s) - n + 1), Len(s))


Bool2Int(b) == IF b THEN 1 ELSE 0

\* countKinds reading the cooperation contract as something other than a
\* Hard proof (HARD_PROOFS without 'coop_contract_pdf')
countKinds_CoopNotHard(evidences) ==
  LET uniqSet == { TrimLower(e) : e \in evidences }
      hardSet == HARD_PROOFS \ {"coop_contract_pdf"}
      hard == Cardinality(uniqSet \cap hardSet)
      med  == Cardinality((uniqSet \ hardSet) \cap MEDIUM_PROOFS)
      sup  == Cardinality(((uniqSet \ hardSet) \ MEDIUM_PROOFS) \cap SUPPORT_PROOFS)
  IN  [uniq |-> Cardinality(uniqSet), hard |-> hard, med |-> med, sup |-> sup,
       uniqSet |-> uniqSet]

countKinds(evidences) ==
  LET uniqSet == { TrimLower(e) : e \in evidences }
      hard == Cardinality(uniqSet \cap HARD_PROOFS)
      med  == Cardinality((uniqSet \ HARD_PROOFS) \cap MEDIUM_PROOFS)
      sup  == Cardinality(((uniqSet \ HARD_PROOFS) \ MEDIUM_PROOFS) \cap SUPPORT_PROOFS)
  IN  [uniq |-> Cardinality(uniqSet), hard |-> hard, med |-> med, sup |-> sup,
       uniqSet |-> uniqSet]

\* ------------------------------------------------------ tone and signals
politenessScoreLite(text) ==
    (IF Test(RxPoliteness.Greet, text) THEN 2 ELSE 0)
  + (IF Test(RxPoliteness.Thanks, text) THEN 1 ELSE 0)
  + (IF Test(RxPoliteness.NiceToMeet, text) THEN 2 ELSE 0)
  + (IF Test(RxPoliteness.Renovogo, text) THEN 1 ELSE 0)

pressureScore(text) ==
    (IF Test(RxPressure.Urgent, text) THEN -4 ELSE 0)
  + (IF Test(RxPressure.Ultimatum, text) THEN -4 ELSE 0)

unrealisticTimeline(text) == Test(RxTimeline.TalksDocs, text) /\ Test(RxTimeline.Fast, text)

concretenessScore(text) ==
  Min(  Bool2Int(Test(RxConcrete.Number, text))
      + Bool2Int(Test(RxConcrete.Currency, text))
      + Bool2Int(Test(RxConcrete.Month, text) \/ Test(RxConcrete.Year, text))
      + Bool2Int(Test(RxConcrete.City, text)), 3)

toneFromHistory(history) ==
  LET lastMsgs == SliceLast(history, 6)
      said     == SelectSeq(lastMsgs, LAMBDA h : h.content # {})
  IN  [polite |-> SeqSum([i \in 1..Len(said) |-> politenessScoreLite(said[i].content)]),
       press  |-> SeqSum([i \in 1..Len(said) |-> pressureScore(said[i].content)]),
       obseq  |-> Len(SelectSeq(said, LAMBDA h :
                     Test(RxObseq.Yes, h.content) /\ Test(RxObseq.Go, h.content)))]

textSignals(text) ==
  [red |->
        (IF Test(RxSignals.Crypto, text) /\ Test(RxSignals.Upfront, text) THEN {"crypto_upfront"} ELSE {})
   \cup (IF Test(RxSignals.Guarantee, text) THEN {"impossible_guarantee"} ELSE {})
   \cup (IF Test(RxSignals.RedPressure, text) THEN {"pressure"} ELSE {})
   \cup (IF Test(RxSignals.Embassy, text) THEN {"embassy_connections_claim"} ELSE {})
   \cup (IF unrealisticTimeline(text) THEN {"unrealistic_timeline"} ELSE {})
   \cup (IF Test(RxSignals.SalaryWord, text) /\ Test(RxSignals.Fee350, text)
         THEN {"fee_salary_confusion"} ELSE {})
   \cup (IF Test(RxSignals.Requisite, text) /\ Test(RxSignals.DemandLatin, text)
         THEN {"requisites_from_demand"} ELSE {}),
   green |->
        (IF Test(RxSignals.BankPay, text) THEN {"mentions_bank_payment"} ELSE {})
   \cup (IF Test(RxSignals.Website, text) THEN {"mentions_website"} ELSE {})
   \cup (IF Test(RxSignals.Demand, text) THEN {"mentions_demand"} ELSE {})
   \cup (IF Test(RxSignals.Contract, text) THEN {"mentions_contract"} ELSE {})
   \cup (IF Test(RxSignals.TestCandidate, text) THEN {"test_one_candidate"} ELSE {}),
   gray |-> (IF Test(RxSignals.Postpone, text) THEN {"postpone"} ELSE {})]

businessFocusScore(text) ==
  Min(3,  Bool2Int(Test(RxBiz.Vacancy, text))
        + Bool2Int(Test(RxBiz.Salary, text))
        + Bool2Int(Test(RxBiz.Housing, text))
        + Bool2Int(Test(RxBiz.Schedule, text))
        + Bool2Int(Test(RxBiz.Location, text))
        + Bool2Int(Test(RxBiz.Docs, text)))

\* -------------------------------------------------- personal questions
IsUser(m) == m.role = "user"

countPersonalQuestions(history) ==
  Len(SelectSeq(SelectSeq(history, IsUser), LAMBDA m : Test(PERSONAL_RX, m.content)))

\* trust in half points
personalQuestionsCapByTrust(trust) ==
  IF trust >= Pts(100) THEN [cap |-> 8, bonus |-> 3]
  ELSE IF trust >= Pts(90) THEN [cap |-> 7, bonus |-> 3]
  ELSE IF trust >= Pts(80) THEN [cap |-> 6, bonus |-> 2]
  ELSE IF trust >= Pts(70) THEN [cap |-> 5, bonus |-> 2]
  ELSE IF trust >= Pts(60) THEN [cap |-> 4, bonus |-> 1]
  ELSE IF trust >= Pts(50) THEN [cap |-> 3, bonus |-> 1]
  ELSE IF trust >= Pts(40) THEN [cap |-> 2, bonus |-> 1]
  ELSE [cap |-> 0, bonus |-> 0]

\* result in points
personalLifeAdjustment(trustNow, history, lastUserText) ==
  IF ~Test(PERSONAL_RX, lastUserText) THEN 0
  ELSE LET totalPersonalAsked == countPersonalQuestions(history)
           q == personalQuestionsCapByTrust(trustNow)
       IN  IF trustNow < Pts(40) THEN -4
           ELSE IF totalPersonalAsked > q.cap THEN 0
           ELSE q.bonus

\* ------------------------------------------------ courtesy with cooldown
COOLDOWN_TURNS == 6

\* result in half points: 1 is the bonus 0.5
courtesyBonusWithCooldown(history, lastUserText) ==
  IF ~Test(COURTESY_RX, lastUserText) THEN 0
  ELSE LET userMsgs == SelectSeq(history, IsUser)
           n        == Len(userMsgs)
           polite   == { i \in 1..(n - 1) : Test(COURTESY_RX, userMsgs[i].content) }
       IN  IF polite = {} THEN 1
           ELSE LET lastPoliteIdx == CHOOSE i \in polite : \A j \in polite : j <= i
                    deltaTurns    == n - lastPoliteIdx
                IN  IF deltaTurns <= COOLDOWN_TURNS THEN 0 ELSE 1

\* ------------------------------------------------------- micro credits
dialogMicroCredits(hist, hardCount, medCount) ==
  LET userMsgs == SliceLast(SelectSeq(hist, IsUser), 12)
      said(rx) == \E i \in 1..Len(userMsgs) : Test(rx, userMsgs[i].content)
      foundKeys ==
           (IF said(KEY_REGEXPS.vacancy) THEN {"vacancy"} ELSE {})
      \cup (IF said(KEY_REGEXPS.salary) THEN {"salary"} ELSE {})
      \cup (IF said(KEY_REGEXPS.housing) THEN {"housing"} ELSE {})
      \cup (IF said(KEY_REGEXPS.schedule) THEN {"schedule"} ELSE {})
      \cup (IF said(KEY_REGEXPS.location) THEN {"location"} ELSE {})
      \cup (IF said(KEY_REGEXPS.documents) THEN {"documents"} ELSE {})
      \cup (IF said(KEY_REGEXPS.website) THEN {"website"} ELSE {})
      earlyPayHits == Len(SelectSeq(SliceLast(userMsgs, 6),
                                 LAMBDA m : Test(RxPay, m.content)))
      pass2 == (hardCount >= 2) \/ (hardCount >= 1 /\ medCount >= 1)
  IN  [uniqInfoKeysCount |-> Cardinality(foundKeys),
       recentEarlyPayPressure |-> (earlyPayHits >= 2) /\ ~pass2]

\* ------------------------------------------------------------ JS values
\* The baseTrust argument as the caller wrote it: a number (v in half
\* points), a non-numeric value such as 'abc', or undefined (left out).
Num(v)    == [kind |-> "num", v |-> v]
NotANum   == [kind |-> "nan", v |-> 0]
Undefined == [kind |-> "missing", v |-> 0]

\* the default parameter `baseTrust = 20`
DefaultBaseTrust(baseTrust) ==
  IF baseTrust.kind = "missing" THEN Num(Pts(20)) ELSE baseTrust

\* clamp01_100 with the lower bound forgotten: Math.min(100, Number(x) || 0)
clamp01_100_NoFloor(x) ==
  LET n == IF x.kind = "num" THEN x.v ELSE 0
  IN  Min(Pts(100), n)

\* Math.max(0, Math.min(100, Number(x) || 0)), in half points
clamp01_100(x) ==
  LET n == IF x.kind = "num" THEN x.v ELSE 0
  IN  Max(0, Min(Pts(100), n))

\* Math.round on a value in half points, which rounds n + 0.5 up to n + 1
MathRound(h) == (h + 1) \div 2

\* ---------------------------------------- gates of computeTrust (v -11)
\* applyGates with the early-payment penalty charged to the scores that
\* passed Gate 3 instead of those below it (comparison turned around)
applyGates_PenaltyAbove(score, hard, med, redCount, sawPaymentStage) ==
  LET g1 == IF score > Pts(30) /\ hard < 1 THEN Pts(30) ELSE score
      passGate2 == (hard >= 2) \/ (hard >= 1 /\ med >= 1)
      g2 == IF g1 > Pts(60) /\ ~passGate2 THEN Pts(60) ELSE g1
      g3 == IF g2 > Pts(75) /\ (hard < 2 \/ redCount > 0) THEN Pts(75) ELSE g2
  IN  IF sawPaymentStage /\ g3 >= Pts(75) THEN Max(0, g3 - Pts(8)) ELSE g3

\* lines 345-349: the three ceilings and the early-payment penalty
applyGates(score, hard, med, redCount, sawPaymentStage) ==
  LET g1 == IF score > Pts(30) /\ hard < 1 THEN Pts(30) ELSE score
      passGate2 == (hard >= 2) \/ (hard >= 1 /\ med >= 1)
      g2 == IF g1 > Pts(60) /\ ~passGate2 THEN Pts(60) ELSE g1
      g3 == IF g2 > Pts(75) /\ (hard < 2 \/ redCount > 0) THEN Pts(75) ELSE g2
  IN  IF sawPaymentStage /\ g3 < Pts(75) THEN Max(0, g3 - Pts(8)) ELSE g3

\* String(h.stage || '').toLowerCase() on the stage labels a turn can carry
ToLowerCase(stage) ==
  CASE stage = "Greeting"  -> "greeting"
    [] stage = "Demand"    -> "demand"
    [] stage = "Candidate" -> "candidate"
    [] stage = "Contract"  -> "contract"
    [] stage = "Payment"   -> "payment"
    [] stage = "Closing"   -> "closing"
    [] OTHER               -> stage

\* history.map(h => String(h.stage || '').toLowerCase())
Stages(history) == { ToLowerCase(history[i].stage) : i \in 1..Len(history) }

redPenalty(red) ==
    (IF "crypto_upfront" \in red THEN 25 ELSE 0)
  + (IF "impossible_guarantee" \in red THEN 30 ELSE 0)
  + (IF "pressure" \in red THEN 16 ELSE 0)
  + (IF "embassy_connections_claim" \in red THEN 30 ELSE 0)
  + (IF "unrealistic_timeline" \in red THEN 12 ELSE 0)
  + (IF "fee_salary_confusion" \in red THEN 12 ELSE 0)
  + (IF "requisites_from_demand" \in red THEN 10 ELSE 0)

greenBonus(green) ==
    (IF "mentions_bank_payment" \in green THEN 2 ELSE 0)
  + (IF "mentions_website" \in green THEN 1 ELSE 0)
  + (IF "mentions_demand" \in green THEN 2 ELSE 0)
  + (IF "mentions_contract" \in green THEN 2 ELSE 0)
  + (IF "test_one_candidate" \in green THEN 2 ELSE 0)

\* steps 0 to 4 of computeTrust (lines 280-330), in half points: the base,
\* the evidence weights, the stage history, the tone and the text signals
signalScore(baseTrust, evidences, history, lastUserText) ==
  LET k       == countKinds(evidences)
      hasCoop == "coop_contract_pdf" \in k.uniqSet \/ "contract_pdf" \in k.uniqSet
      s0 == clamp01_100(DefaultBaseTrust(baseTrust))
      s1 == s0 + Pts(k.hard * 10) + Pts(Min(3, k.med) * 4) + Pts(Min(3, k.sup) * 2)
               + (IF hasCoop THEN Pts(4) ELSE 0)
               + (IF k.uniq >= 3 THEN Pts(3) ELSE 0)
               + (IF k.uniq >= 5 THEN Pts(3) ELSE 0)
      stages == Stages(history)
      s2 == s1 + (IF "candidate" \in stages /\ (k.hard + k.med) > 0 THEN Pts(2) ELSE 0)
               + (IF "contract" \in stages /\ k.hard > 0 THEN Pts(3) ELSE 0)
      tone == toneFromHistory(history)
      s3 == s2 + Pts(Min(4, tone.polite)) + Pts(tone.press)
               - (IF tone.obseq >= 2 THEN Pts(3) ELSE 0)
      s4 == s3 + Pts(concretenessScore(lastUserText))
               + Pts(businessFocusScore(lastUserText))
      sig == textSignals(lastUserText)
  IN  s4 - Pts(redPenalty(sig.red)) + Pts(greenBonus(sig.green))

\* line 342: if (!micro.recentEarlyPayPressure) score += 1
microCredit(micro) == IF ~micro.recentEarlyPayPressure THEN Pts(1) ELSE 0

\* steps 5 to 7 of computeTrust (lines 332-342) on the score of steps 0 to 4:
\* the personal-question adjustment, the courtesy bonus and the micro-credits
rawScore(baseTrust, evidences, history, lastUserText) ==
  LET k  == countKinds(evidences)
      WithPersonal(s5) ==
        LET s6 == s5 + Pts(personalLifeAdjustment(s5, history, lastUserText))
            s7 == s6 + courtesyBonusWithCooldown(history, lastUserText)
            micro == dialogMicroCredits(history, k.hard, k.med)
        IN  s7 + Pts(Min(8, micro.uniqInfoKeysCount)) + microCredit(micro)
  IN  WithPersonal(signalScore(baseTrust, evidences, history, lastUserText))

\* computeTrust of the revision written for server.js v2025-09-16-11
computeTrust(baseTrust, evidences, history, lastUserText) ==
  LET k   == countKinds(evidences)
      sig == textSignals(lastUserText)
      score == applyGates(rawScore(baseTrust, evidences, history, lastUserText),
                          k.hard, k.med, Cardinality(sig.red),
                          "payment" \in Stages(history))
  IN  MathRound(clamp01_100(Num(score)))

\* ------------------------------------------------ trust.js (v -2 revision)
politenessScore(text) ==
    (IF Test(RxPoliteness.Greet, text) THEN 2 ELSE 0)
  + (IF Test(RxPoliteness.Thanks, text) THEN 1 ELSE 0)
  + (IF Test(RxPoliteness.NiceToMeet, text) THEN 2 ELSE 0)

toneFromHistoryLegacy(history) ==
  LET lastMsgs == SliceLast(history, 6)
      said     == SelectSeq(lastMsgs, LAMBDA h : h.content # {})
  IN  [polite |-> SeqSum([i \in 1..Len(said) |-> politenessScore(said[i].content)]),
       press  |-> SeqSum([i \in 1..Len(said) |-> pressureScore(said[i].content)]),
       obseq  |-> Len(SelectSeq(said, LAMBDA h :
                     Test(RxObseqYesLegacy, h.content) /\ Test(RxObseq.Go, h.content)))]

textSignalsLegacy(text) ==
  [red |->
        (IF Test(RxSignals.Crypto, text) /\ Test(RxSignals.Upfront, text) THEN {"crypto_upfront"} ELSE {})
   \cup (IF Test(RxSignals.Guarantee, text) THEN {"impossible_guarantee"} ELSE {})
   \cup (IF Test(RxSignals.RedPressure, text) THEN {"pressure"} ELSE {})
   \cup (IF Test(RxSignals.Embassy, text) THEN {"embassy_connections_claim"} ELSE {})
   \cup (IF unrealisticTimeline(text) THEN {"unrealistic_timeline"} ELSE {}),
   green |->
        (IF Test(RxSignals.BankPay, text) THEN {"mentions_bank_payment"} ELSE {})
   \cup (IF Test(RxSignals.Website, text) THEN {"mentions_website"} ELSE {})
   \cup (IF Test(RxSignals.Demand, text) THEN {"mentions_demand"} ELSE {})
   \cup (IF Test(RxSignals.Contract, text) THEN {"mentions_contract"} ELSE {})
   \cup (IF Test(RxSignals.TestCandidate, text) THEN {"test_one_candidate"} ELSE {}),
   gray |-> (IF Test(RxSignals.Postpone, text) THEN {"postpone"} ELSE {})]

redPenaltyLegacy(red) ==
    (IF "crypto_upfront" \in red THEN 25 ELSE 0)
  + (IF "impossible_guarantee" \in red THEN 30 ELSE 0)
  + (IF "pressure" \in red THEN 18 ELSE 0)
  + (IF "embassy_connections_claim" \in red THEN 30 ELSE 0)
  + (IF "unrealistic_timeline" \in red THEN 12 ELSE 0)

greenBonusLegacy(green) ==
    (IF "mentions_bank_payment" \in green THEN 3 ELSE 0)
  + (IF "mentions_website" \in green THEN 2 ELSE 0)
  + (IF "mentions_demand" \in green THEN 3 ELSE 0)
  + (IF "mentions_contract" \in green THEN 3 ELSE 0)
  + (IF "test_one_candidate" \in green THEN 3 ELSE 0)

\* trust.js lines 164-176: gates at 50 / 80 / 90, payment penalty 10
applyGatesLegacy(score, hard, med, redCount, sawPaymentStage) ==
  LET g1 == IF score > Pts(50) /\ hard < 1 THEN Pts(50) ELSE score
      passGate2 == (hard >= 2) \/ (hard >= 1 /\ med >= 1)
      g2 == IF g1 > Pts(80) /\ ~passGate2 THEN Pts(80) ELSE g1
      g3 == IF g2 > Pts(90) /\ (hard < 2 \/ redCount > 0) THEN Pts(90) ELSE g2
  IN  IF sawPaymentStage /\ g3 < Pts(90) THEN Max(0, g3 - Pts(10)) ELSE g3

\* trust.js lines 122-162, for a numeric baseTrust
rawScoreLegacy(baseTrust, evidences, history, lastUserText) ==
  LET k  == countKinds(evidences)
      s0 == Max(0, Min(Pts(100), baseTrust.v))
      s1 == s0 + Pts(k.hard * 18) + Pts(Min(2, k.med) * 8) + Pts(Min(2, k.sup) * 3)
               + (IF k.uniq >= 3 THEN Pts(6) ELSE 0)
               + (IF k.uniq >= 5 THEN Pts(6) ELSE 0)
      stages == Stages(history)
      s2 == s1 + (IF "candidate" \in stages /\ (k.hard + k.med) > 0 THEN Pts(4) ELSE 0)
               + (IF "contract" \in stages /\ k.hard > 0 THEN Pts(5) ELSE 0)
      tone == toneFromHistoryLegacy(history)
      s3 == s2 + Pts(Min(4, tone.polite)) + Pts(tone.press)
               - (IF tone.obseq >= 2 THEN Pts(4) ELSE 0)
      sig == textSignalsLegacy(lastUserText)
  IN  s3 - Pts(redPenaltyLegacy(sig.red)) + Pts(greenBonusLegacy(sig.green))

\* computeTrust of trust.js.  A non-numeric baseTrust makes Math.min return
\* NaN, every later comparison false and the result NaN.
computeTrustLegacy(baseTrust, evidences, history, lastUserText) ==
  LET b   == DefaultBaseTrust(baseTrust)
      k   == countKinds(evidences)
      sig == textSignalsLegacy(lastUserText)
  IN  IF b.kind # "num" THEN "NaN"
      ELSE MathRound(Max(0, Min(Pts(100),
             applyGatesLegacy(rawScoreLegacy(b, evidences, history, lastUserText),
                              k.hard, k.med, Cardinality(sig.red),
                              "payment" \in Stages(history)))))

\* ------------------------------------ part_001 (trust.js, v -5 revision)
\* dialogMicroCredits, lines 196-204
KEY_REGEXPS_V5 ==
  [ name           |-> {"kak_vas_zovut"},
    office         |-> {},
    location       |-> {"gorod"},
    years          |-> {},
    specialization |-> {},
    registration   |-> {},
    team           |-> {} ]
\* payRx, line 214: its last alternative begins with a space, so it matches
\* the phrase only where another phrase precedes it in the text
RxPayV5 ==
  [ Anywhere   |-> {"predoplata", "schet", "rekvizity_dlya_invoysa"},
    AfterSpace |-> {"rekvizity"} ]

\* a phrase of the text that is not the first one of it
NotFirst(text, phrase) ==
  /\ phrase \in text
  /\ \E i, j \in 1..Len(Vocabulary) :
        i < j /\ Vocabulary[j] = phrase /\ Vocabulary[i] \in text

TestPayV5(text) ==
  Test(RxPayV5.Anywhere, text) \/ (\E ph \in RxPayV5.AfterSpace : NotFirst(text, ph))

\* dialogMicroCredits(hist) of part_001, lines 193-222.  It reads passGate2,
\* a const of computeTrust declared at line 182, below the call of line 176:
\* evaluating !passGate2 throws a ReferenceError, and && evaluates it
\* exactly when earlyPayHits >= 2.
dialogMicroCreditsV5(hist) ==
  LET userMsgs == SliceLast(SelectSeq(hist, IsUser), 12)
      said(rx) == \E i \in 1..Len(userMsgs) : Test(rx, userMsgs[i].content)
      foundKeys ==
           (IF said(KEY_REGEXPS_V5.name) THEN {"name"} ELSE {})
      \cup (IF said(KEY_REGEXPS_V5.office) THEN {"office"} ELSE {})
      \cup (IF said(KEY_REGEXPS_V5.location) THEN {"location"} ELSE {})
      \cup (IF said(KEY_REGEXPS_V5.years) THEN {"years"} ELSE {})
      \cup (IF said(KEY_REGEXPS_V5.specialization) THEN {"specialization"} ELSE {})
      \cup (IF said(KEY_REGEXPS_V5.registration) THEN {"registration"} ELSE {})
      \cup (IF said(KEY_REGEXPS_V5.team) THEN {"team"} ELSE {})
      earlyPayHits == Len(SelectSeq(SliceLast(userMsgs, 6),
                                 LAMBDA m : TestPayV5(m.content)))
  IN  [uniqInfoKeysCount |-> Cardinality(foundKeys),
       recentEarlyPayPressure |-> FALSE,
       threw |-> earlyPayHits >= 2]

\* steps 1 to 3 of computeTrust of part_001 (lines 127-173), in half points
signalScoreV5(baseTrust, evidences, history, lastUserText) ==
  LET k       == countKinds(evidences)
      hasCoop == "coop_contract_pdf" \in k.uniqSet \/ "contract_pdf" \in k.uniqSet
      s0 == clamp01_100(DefaultBaseTrust(baseTrust))
      s1 == s0 + Pts(k.hard * 10) + Pts(Min(3, k.med) * 4) + Pts(Min(3, k.sup) * 2)
               + (IF hasCoop THEN Pts(4) ELSE 0)
               + (IF k.uniq >= 3 THEN Pts(3) ELSE 0)
               + (IF k.uniq >= 5 THEN Pts(3) ELSE 0)
      stages == Stages(history)
      s2 == s1 + (IF "candidate" \in stages /\ (k.hard + k.med) > 0 THEN Pts(2) ELSE 0)
               + (IF "contract" \in stages /\ k.hard > 0 THEN Pts(3) ELSE 0)
      tone == toneFromHistoryLegacy(history)
      s3 == s2 + Pts(Min(4, tone.polite)) + Pts(tone.press)
               - (IF tone.obseq >= 2 THEN Pts(3) ELSE 0)
      sig == textSignals(lastUserText)
  IN  s3 - Pts(redPenalty(sig.red)) + Pts(greenBonus(sig.green))

\* computeTrust of part_001: the value returned, or "ReferenceError" when
\* the call of dialogMicroCredits throws
computeTrustV5(baseTrust, evidences, history, lastUserText) ==
  LET k     == countKinds(evidences)
      sig   == textSignals(lastUserText)
      micro == dialogMicroCreditsV5(history)
      score == signalScoreV5(baseTrust, evidences, history, lastUserText)
                 + Pts(Min(8, micro.uniqInfoKeysCount)) + microCredit(micro)
  IN  IF micro.threw THEN "ReferenceError"
      ELSE MathRound(clamp01_100(Num(applyGates(score, k.hard, k.med, Cardinality(sig.red),
                                                "payment" \in Stages(history)))))

\* ======================================================================
\* server.js (v2025-09-16-11, lines 1-1105)
\* ======================================================================
\* A reply is the sequence of its pieces, and the concrete text is the
\* pieces joined by single spaces.  A piece is a sentence with its end mark,
\* or (tsena and the salary _cut pieces, which line 627 leaves) a run of words
\* without one; splitSentences gives the sentences of a reply, each the
\* pieces up to and including the next one with an end mark.  Pieces are
\* named; the names stand for:
\*   ali                 Меня зовут Али.
\*   reg_months          По долгосрочному — 6 мес назад; по сезонному — 3 мес назад.
\*   reg_queues          Очереди нестабильные.
\*   viktor              Виктор, рад знакомству.
\*   slushayu_vas        Слушаю вас.
\*   zdravstvuyte, privet, dobryy_den, slushayu
\*                       Здравствуйте. / Привет. / Добрый день. / Слушаю.
\*   what_needed         Обычно достаточно описания вакансии (Demand) и нашего B2B-контракта.
\*   pay_after_visa      Предпочитаю оплату после визы или как минимум после подтверждения регистрации.
\*   no_crypto           Крипту не люблю, счёт — банковский.
\*   budget_dorogo       Честно, для меня это сейчас дорого.
\*   budget_summa        Пока не готов закрывать всю сумму.
\*   after_permit        Предпочитаю оплату после визы или хотя бы подтверждения регистрации.
\*   slots_first         Сначала запись/подтверждение, потом вернусь к оплате.
\*   delay_check         Возьму время на внутреннюю проверку и подберу кандидатов.
\*   akkuratno           Давайте аккуратно, без лишних рисков.
\*   ok                  Ок.
\*   fb_payment          Мне важны подтверждения по документам.
\*   fb_describe         Опишите, пожалуйста, предложение или пришлите документы.
\*   salary_welder       По деманду: нетто от 35000 CZK.      (_cut: without "CZK.", no end mark)
\*   housing_welder      По жилью из деманда: жильё ~€150/мес. (_cut: "жильё ~/мес.")
\*   hours_welder        График по деманду: ~180 ч/мес.
\*   location_welder     Локация в деманде: Brno.
\*   vizhu_welder        По деманду вижу: Welder • Brno.
\*   usloviya_welder     Условия: нетто от 35000 CZK • жильё ~€150/мес • ~180 ч/мес.
\*                       (_cut: Условия: нетто от 35000 • жильё ~/мес • ~180 ч/мес.)
\*   salary_packer       По деманду: нетто от 1200 EUR.        (_cut: without "EUR.", no end mark)
\*   hours_packer        График по деманду: 8-16.
\*   location_packer     Локация в деманде: Praha.
\*   vizhu_packer        По деманду вижу: Packer • Praha.
\*   usloviya_packer     Условия: нетто от 1200 EUR • 8-16.     (_cut: without "EUR ")
\*   ponyatno, PONYATNO  Понятно. / ПОНЯТНО.
\*   kak_vy              Как вы?
\*   kakie_sroki         Какие сроки?
\*   kakaya_zarplata     А какая зарплата?
\*   tsena_350, tsena    Цена €350. / Цена
\*   received_demand     Received your demand.
\*   spasibo_poluchil    Спасибо, получил Demand.
\*   my_predlagaem_skidki, i     Мы предлагаем скидки. / и.
\*   gotov_kontrakt      Готов обсудить контракт.
\*   rada_pomoch         Я рада помочь.
\*   employer_details    Пришлите employer details.
\*   rekvizity_b2b       Пришлите реквизиты для инвойса (наши B2B).
\*   gotov_sotrudnichat  Я готов с вами сотрудничать.
\*   start_N             Стартуем с N кандидатом / кандидатами.
\*   crypto_rekvizity    Предоставьте, пожалуйста, криптовалютные реквизиты для оплаты.
\*   bank_schet          Предоставьте, пожалуйста, банковский счёт для оплаты.
\*
\* Message tokens (Vocabulary) stand for: zdravstvuyte здравствуйте, pozhaluysta
\* пожалуйста, srochno срочно, inache иначе, potoropites поторопитесь,
\* predoplata предоплата, garantiruyu гарантирую, schet счёт, sayt сайт,
\* kontrakt контракт, zavtra завтра, zarplata зарплата, rekvizity реквизиты,
\* semya семья, okey_ishchite "окей, ищите", slot слот, tsena цена, bank банк,
\* kak_vas_zovut "кто вы, как вас зовут", chto_nuzhno "что нужно", ponimayu
\* понимаю, reputatsiya репутация, partner партнёр, kak_budete_gotovy "как
\* будете готовы", bystree быстрее, eur €, grafik график, vakansiya вакансия,
\* gorod город, zhilyo жильё, chto_delat "что делать", employer_details
\* "employer details", rekvizity_dlya_invoysa "реквизиты для инвойса (наши
\* B2B)", work_permit "work permit", 5_minut "5 минут"; the others are spelled
\* as written.

EmptyMap == [k \in {} |-> 0]

\* { ...f, ...g }
Merge(f, g) ==
  [k \in (DOMAIN f) \cup (DOMAIN g) |-> IF k \in DOMAIN g THEN g[k] ELSE f[k]]

Range(s) == { s[i] : i \in DOMAIN s }

\* Array.from(new Set(arr)): first occurrences, in order
RECURSIVE Dedupe(_)
Dedupe(s) ==
  IF s = << >> THEN << >>
  ELSE LET init == Dedupe(SubSeq(s, 1, Len(s) - 1))
           last == s[Len(s)]
       IN  IF last \in Range(init) THEN init ELSE Append(init, last)

RECURSIVE Flatten(_)
Flatten(ss) == IF ss = << >> THEN << >> ELSE Head(ss) \o Flatten(Tail(ss))

MAX_SENTENCES == 4

\* the pieces without an end mark
OpenPieces == {"tsena", "salary_welder_cut", "salary_packer_cut"}

\* splitSentences(t), and sentSplit of line 106 alike:
\* String(t).split(/(?<=[.!?])\s+/) -- the sentences of the reply in order,
\* each the sequence of its pieces up to the first with an end mark
RECURSIVE splitSentences(_)
splitSentences(reply) ==
  IF reply = << >> THEN << >>
  ELSE LET n == CHOOSE k \in 1..Len(reply) :
                  /\ k = Len(reply) \/ reply[k] \notin OpenPieces
                  /\ \A j \in 1..(k - 1) : reply[j] \in OpenPieces
       IN  << SubSeq(reply, 1, n) >> \o splitSentences(SubSeq(reply, n + 1, Len(reply)))

\* limitSentences(text, max): sentSplit(text).slice(0, max).join(' ')
limitSentences(reply, max) ==
  LET sentences == splitSentences(reply)
  IN  Flatten(SubSeq(sentences, 1, Min(max, Len(sentences))))

\* forceMasculine: \bрада\b and the other five patterns need an ASCII word
\* character next to the Cyrillic word, which no sentence here has.
forceMasculine(reply) == reply

\* lines 627-638 on the whole reply
Sanitize(reply) ==
  LET \* line 627: the currency mark goes with the digits, points, commas
      \* and white space after it, the end mark of the sentence among them
      CutPrice(s) ==
        CASE s = "salary_welder"   -> "salary_welder_cut"
          [] s = "housing_welder"  -> "housing_welder_cut"
          [] s = "usloviya_welder" -> "usloviya_welder_cut"
          [] s = "salary_packer"   -> "salary_packer_cut"
          [] s = "usloviya_packer" -> "usloviya_packer_cut"
          [] s = "tsena_350"       -> "tsena"
          [] OTHER                 -> s
      \* line 630, redirectEmployerContractToCoop
      Redirect(s) == IF s = "employer_details" THEN "rekvizity_b2b" ELSE s
      \* line 633, stripRoboticAcks: [^.?!]*\breceived\b[^.?!]*demand[^.?!]*[.?!]
      \* takes the sentence whole, the words since the last end mark included
      Kept(sentences) ==
        Flatten(SelectSeq(sentences, LAMBDA g : g[Len(g)] # "received_demand"))
      \* line 635, stripSalesy: the patterns have no g flag and take the
      \* first "Мы предлагаем" and the first "скидк" of the reply only
      Salesy(r) ==
        IF \E i \in 1..Len(r) : r[i] = "my_predlagaem_skidki"
        THEN LET first == CHOOSE i \in 1..Len(r) :
                             /\ r[i] = "my_predlagaem_skidki"
                             /\ \A j \in 1..(i - 1) : r[j] # "my_predlagaem_skidki"
             IN  [r EXCEPT ![first] = "i"]
        ELSE r
      priced == [i \in 1..Len(reply) |-> Redirect(CutPrice(reply[i]))]
  IN  limitSentences(Salesy(Kept(splitSentences(priced))), MAX_SENTENCES)

\* String.prototype.toLowerCase on a piece
LowerSentence(s) == IF s = "PONYATNO" THEN "ponyatno" ELSE s

ToLower(reply) == [i \in 1..Len(reply) |-> LowerSentence(reply[i])]

\* the names joined by single spaces
RECURSIVE JoinNames(_)
JoinNames(names) ==
  IF Len(names) = 1 THEN names[1]
  ELSE names[1] \o " " \o JoinNames(Tail(names))

\* normPhrase(s) of a sentence: lower case, then every character that is
\* not a letter, a digit, white space or one of ? . ! , - is dropped.  The
\* normal form of a piece is named after the first piece that has it, and
\* that of a sentence is the normal forms of its pieces joined as the text is
normPhrase(sentence) ==
  LET Norm(s) == IF s = "PONYATNO" THEN "ponyatno" ELSE s
  IN  JoinNames([i \in 1..Len(sentence) |-> Norm(sentence[i])])

\* the phrases of STOP_PHRASES that a text of this vocabulary can hold
STOP_PHRASES == {"kak_vy"}

\* STOP_PHRASES.some(p => ns.includes(p))
HoldsStopPhrase(sentence) ==
  \E i \in 1..Len(sentence) : normPhrase(<< sentence[i] >>) \in STOP_PHRASES

\* /\?\s*$/.test(s)
EndsWithQuestion(sentence) ==
  sentence[Len(sentence)] \in {"kak_vy", "kakie_sroki", "kakaya_zarplata"}

\* /(demand|контракт|документ|полный контракт|сотрудничеств)/i on a reply
RxReplyDocs ==
  {"what_needed", "fb_payment", "fb_describe", "received_demand",
   "spasibo_poluchil", "gotov_kontrakt"}

\* redirectEmployerContractToCoop on a message
redirectEmployerContractToCoop(text) ==
  IF "employer_details" \in text
  THEN (text \ {"employer_details"}) \cup {"rekvizity_dlya_invoysa"}
  ELSE text

\* ------------------------------------------------------------ seededRand
\* A 32-bit word is kept as two 16-bit halves [hi, lo].
W16 == 65536

\* x ^ y on 32 bits; a ^ b on 16 bits goes by halves of the operands' 1, 2,
\* 4, 8 and 16 bits
Xor32(x, y) ==
  LET Xor1(a, b)  == (a + b) % 2
      Xor2(a, b)  == 2 * Xor1(a \div 2, b \div 2) + Xor1(a % 2, b % 2)
      Xor4(a, b)  == 4 * Xor2(a \div 4, b \div 4) + Xor2(a % 4, b % 4)
      Xor8(a, b)  == 16 * Xor4(a \div 16, b \div 16) + Xor4(a % 16, b % 16)
      Xor16(a, b) == 256 * Xor8(a \div 256, b \div 256) + Xor8(a % 256, b % 256)
  IN  [hi |-> Xor16(x.hi, y.hi), lo |-> Xor16(x.lo, y.lo)]

\* x << n on 32 bits, for n < 15
Shl32(x, n) ==
  LET m == 2 ^ n
  IN  [hi |-> (((x.lo * m) \div W16) + x.hi * m) % W16, lo |-> (x.lo * m) % W16]

\* x >>> 17
Shr17(x) == [hi |-> 0, lo |-> x.hi \div 2]

\* Math.imul(h, 16777619), 16777619 = 256 * 65536 + 403
ImulPrime(h) ==
  LET p == h.lo * 403
  IN  [hi |-> ((p \div W16) + h.hi * 403 + h.lo * 256) % W16, lo |-> p % W16]

\* 2166136261 >>> 0
FnvOffset == [hi |-> 33052, lo |-> 40389]

\* a 32-bit unsigned value of the generator
IsWord(h) == h.hi \in 0..(W16 - 1) /\ h.lo \in 0..(W16 - 1)

\* h ^= str.charCodeAt(i); h = Math.imul(h, 16777619), over the string
RECURSIVE FnvHash(_, _)
FnvHash(h, codes) ==
  LET Multiplied(m) == IF IsWord(m) THEN FnvHash(m, Tail(codes)) ELSE m
      Mixed(x)      == IF IsWord(x) THEN Multiplied(ImulPrime(x)) ELSE x
  IN  IF codes = << >> THEN h
      ELSE Mixed(Xor32(h, [hi |-> 0, lo |-> Head(codes)]))

\* h ^= h << 13; h ^= h >>> 17; h ^= h << 5
XorShift(h) ==
  LET Third(b)  == IF IsWord(b) THEN Xor32(b, Shl32(b, 5)) ELSE b
      Second(a) == IF IsWord(a) THEN Third(Xor32(a, Shr17(a))) ELSE a
  IN  Second(Xor32(h, Shl32(h, 13)))

\* ((h >>> 0) % 1000), the draw in thousandths
PerMille(h) == ((h.hi % 1000) * (W16 % 1000) + h.lo) % 1000

\* the state of the generator after n calls of the closure
RECURSIVE RndState(_, _)
RndState(h, n) ==
  LET Stepped(prev) == IF IsWord(prev) THEN XorShift(prev) ELSE prev
  IN  IF n = 0 THEN h ELSE Stepped(RndState(h, n - 1))

\* the n-th value (n >= 1) returned by seededRand(str), times 1000
seededRand(codes, n) ==
  LET Draw(h0) == IF IsWord(h0) THEN PerMille(RndState(h0, n)) ELSE 0
  IN  Draw(FnvHash(FnvOffset, codes))

\* String.prototype.charCodeAt over the session ids of the model
CharCodes(sid) ==
  CASE sid = "s1"      -> << 115, 49 >>
    [] sid = "default" -> << 100, 101, 102, 97, 117, 108, 116 >>

\* the decimal digits of a number, as character codes
RECURSIVE DigitCodes(_)
DigitCodes(n) ==
  IF n < 10 THEN << 48 + n >> ELSE Append(DigitCodes(n \div 10), 48 + (n % 10))

\* `${sid}#buy#${turn}`
BuySeed(sid, turn) == CharCodes(sid) \o << 35, 98, 117, 121, 35 >> \o DigitCodes(turn)

\* ------------------------------------------------- session state store
\* JS undefined / a missing field, for stage strings and the like
Missing == ""

\* the record getState creates for a session id it has not seen
NewSession ==
  [ lastReply        |-> << >>,
    lastActions      |-> << >>,
    seenEvidences    |-> EmptyMap,
    evidenceDetails  |-> EmptyMap,
    lastObjection    |-> "",
    demandFacts      |-> EmptyMap,
    turn             |-> 0,
    repeatStats      |-> [ phraseCounts |-> EmptyMap, lastUsedTurn |-> EmptyMap,
                           topicCounts |-> EmptyMap ],
    alreadyCommitted |-> FALSE ]

\* getState that also creates the record of the default session id (as a
\* call getState() without its argument would)
getState_AlsoDefault(store, sid) ==
  [s \in (DOMAIN store) \cup {sid, "default"} |->
     IF s \in DOMAIN store THEN store[s] ELSE NewSession]

\* getState(sid) on a store: the store afterwards (the record is created on
\* first use) -- the record itself is getState(store, sid)[sid]
getState(store, sid) ==
  IF sid \in DOMAIN store THEN store
  ELSE [s \in (DOMAIN store) \cup {sid} |-> IF s = sid THEN NewSession ELSE store[s]]

\* bumpEvidence that starts seenEvidences afresh with the key it records
\* (S.seenEvidences = new Map([[key, rec]]))
bumpEvidence_Replace(S, key, details) ==
  LET count == IF key \in DOMAIN S.seenEvidences THEN S.seenEvidences[key].count ELSE 0
      old   == IF key \in DOMAIN S.evidenceDetails THEN S.evidenceDetails[key]
               ELSE EmptyMap
  IN  [S EXCEPT !.seenEvidences = [k \in {key} |-> [count |-> count + 1]],
                !.evidenceDetails =
                   IF details # Undefined
                   THEN Merge(S.evidenceDetails, [k \in {key} |-> Merge(old, details)])
                   ELSE @]

\* bumpEvidence on a session record; details is Undefined when the call has
\* no third argument or passes undefined, and the object otherwise (the
\* empty object too, which line 233 takes as it takes any other).
\* rec.lastAt (the wall clock) is not kept.
bumpEvidence(S, key, details) ==
  LET count == IF key \in DOMAIN S.seenEvidences THEN S.seenEvidences[key].count ELSE 0
      seen  == Merge(S.seenEvidences, [k \in {key} |-> [count |-> count + 1]])
      old   == IF key \in DOMAIN S.evidenceDetails THEN S.evidenceDetails[key]
               ELSE EmptyMap
  IN  [S EXCEPT !.seenEvidences = seen,
                !.evidenceDetails =
                   IF details # Undefined
                   THEN Merge(S.evidenceDetails, [k \in {key} |-> Merge(old, details)])
                   ELSE @]

\* the keys recorded more than once, instead of every key of the Map
evidenceCountUnique_SeenTwice(S) ==
  Cardinality({ k \in DOMAIN S.seenEvidences : S.seenEvidences[k].count >= 2 })

evidenceCountUnique(S) == Cardinality(DOMAIN S.seenEvidences)

hasEvidence(S, key) == key \in DOMAIN S.seenEvidences

getDemandFacts(S) == S.demandFacts

setDemandFacts(S, facts) == [S EXCEPT !.demandFacts = Merge(@, facts)]

\* evidenceDetails?.[key]
DetailsOf(evidenceDetails, key) ==
  IF key \in DOMAIN evidenceDetails THEN evidenceDetails[key] ELSE Undefined

\* ------------------------------------------------------- evidence keys
\* the alias table of normalizeEvidenceKey (Latin spellings)
EvidenceAlias ==
  [ card |-> "business_card", business_card |-> "business_card",
    demand |-> "demand_letter", demandletter |-> "demand_letter",
    sample |-> "sample_contract_pdf", sample_contract |-> "sample_contract_pdf",
    contract_sample |-> "sample_contract_pdf",
    contract_pdf |-> "coop_contract_pdf", contract |-> "coop_contract_pdf",
    contractpdf |-> "coop_contract_pdf", coop_contract |-> "coop_contract_pdf",
    full_contract |-> "coop_contract_pdf",
    visa |-> "visa_sample", visa_scan |-> "visa_sample", visa_sample |-> "visa_sample",
    site |-> "website", website |-> "website", reviews |-> "reviews",
    registry |-> "registry_proof", uradprace |-> "registry_proof",
    presentation |-> "presentation", deck |-> "presentation", video |-> "video",
    youtube |-> "video", price |-> "price_breakdown", slot_plan |-> "slot_plan",
    company_registry |-> "company_registry", invoice_template |-> "invoice_template",
    nda |-> "nda" ]

normalizeEvidenceKey(k) ==
  LET key == TrimLower(k)
  IN  IF key \in DOMAIN EvidenceAlias THEN EvidenceAlias[key] ELSE key

\* arr.map(f)
Map1(s, F(_)) == [i \in 1..Len(s) |-> F(s[i])]

\* arr.filter(Boolean) on strings
RECURSIVE FilterTruthy(_)
FilterTruthy(s) ==
  IF s = << >> THEN << >>
  ELSE IF Head(s) = "" THEN FilterTruthy(Tail(s))
       ELSE << Head(s) >> \o FilterTruthy(Tail(s))

\* Array.from({length: Math.max(0, n|0)}, (_, i) => `proof_${i+1}`)
ProofKeys(n) ==
  [i \in 1..Max(0, n) |-> "proof_" \o ToString(i)]

\* sanitizeHistory: the last 50 entries, any role but assistant becomes
\* user, tags are cut out of the content (no vocabulary phrase has one),
\* a missing stage stays missing
sanitizeHistory(arr) ==
  LET last == SliceLast(arr, 50)
  IN  [i \in 1..Len(last) |->
         [role    |-> IF last[i].role = "assistant" THEN "assistant" ELSE "user",
          content |-> last[i].content,
          stage   |-> last[i].stage]]

\* ------------------------------------------------------------- actions
ACTION_WHITELIST ==
  {"ask_demands", "ask_sample_contract", "ask_coop_contract", "ask_price_breakdown",
   "test_one_candidate", "invoice_request", "goodbye"}

ACTION_ORDER ==
  << "ask_demands", "ask_sample_contract", "ask_coop_contract", "ask_price_breakdown",
     "test_one_candidate", "invoice_request", "goodbye" >>

RECURSIVE SelectIn(_, _)
SelectIn(s, keep) ==
  IF s = << >> THEN << >>
  ELSE IF Head(s) \in keep THEN << Head(s) >> \o SelectIn(Tail(s), keep)
       ELSE SelectIn(Tail(s), keep)

\* normalizeActions without the trailing sort: whitelisted and without
\* duplicates, in the order of first appearance
normalizeActions_Unsorted(arr) == Dedupe(SelectIn(arr, ACTION_WHITELIST))

\* normalizeActions: whitelisted, without duplicates, in ACTION_ORDER
normalizeActions(arr) == SelectIn(ACTION_ORDER, Range(arr) \cap ACTION_WHITELIST)

\* ------------------------------------------------------------ greeting
\* registrationAnswer(): two sentences (REG_LONGTERM_MONTHS = 6 and
\* REG_SEASONAL_MONTHS = 3 are part of the first)
registrationAnswer == << "reg_months", "reg_queues" >>

GreetingVariants == << "zdravstvuyte", "privet", "dobryy_den", "slushayu" >>

\* craftHumanGreeting({base, userText}); variant is
\* Math.floor(Math.random() * variants.length) + 1, read only for an empty base
craftHumanGreeting(base, userText, variant) ==
  IF Test(RxIntro, userText) THEN << "viktor", "slushayu_vas" >>
  ELSE IF base # << >> THEN forceMasculine(splitSentences(base)[1])
       ELSE forceMasculine(<< GreetingVariants[variant] >>)

rewriteVacancyQuestionToSupplierRole(reply) == reply

\* -------------------------------------------------------- demand facts
\* String(s).trim() on the field values of the model
Trim(s) == IF s = " Welder " THEN "Welder" ELSE s

\* num(s): white space removed, the first comma made a point, the first run
\* of digits and points read as a number; 0 also stands for undefined
num(s) ==
  CASE s = "35 000"   -> 35000
    [] s = "150"      -> 150
    [] s = "180"      -> 180
    [] s = "1200 EUR" -> 1200
    [] OTHER          -> 0

\* the demand letter of the model, as text:
\*   Position: Packer\nSalary net: 1200 EUR\nWorkhours: 8-16\nLocation of work: Praha
\* and what the capture group of each pattern of lines 280-286 holds
\* ("" when the pattern does not match)
TextCapture(text, field) ==
  IF text # "PackerLetter" THEN ""
  ELSE CASE field = "position" -> "Packer"
         [] field = "salary"   -> "1200 EUR"
         [] field = "schedule" -> "8-16"
         [] field = "location" -> "Praha"
         [] OTHER              -> ""

\* /czk/i.test(v)
RxCzk(v) == v \in {"35 000 CZK"}

\* a truthy string field / a truthy number field
HasStr(f, k) == k \in DOMAIN f /\ f[k] # ""
HasNum(f, k) == k \in DOMAIN f /\ f[k] # 0

One(k, v) == [x \in {k} |-> v]

extractDemandFactsFromDetails(details) ==
  LET meta == IF "demand_meta" \in DOMAIN details THEN details.demand_meta ELSE EmptyMap
      text == IF "demand_text" \in DOMAIN details THEN details.demand_text ELSE ""
      m1 == IF HasStr(meta, "position") THEN One("position", Trim(meta.position)) ELSE EmptyMap
      m2 == IF HasStr(meta, "job_description")
            THEN One("job_description", Trim(meta.job_description)) ELSE EmptyMap
      m3 == IF HasStr(meta, "salary_net_czk")
            THEN One("salary", [value |-> num(meta.salary_net_czk), currency |-> "CZK"])
            ELSE IF HasStr(meta, "salary_net_eur")
            THEN One("salary", [value |-> num(meta.salary_net_eur), currency |-> "EUR"])
            ELSE EmptyMap
      \* lines 263-266: ?? passes to accommodation only when accommodation_eur
      \* is not there at all, an empty accommodation_eur is read as it is
      m4 == IF HasStr(meta, "accommodation_eur") \/ HasStr(meta, "accommodation")
            THEN One("accommodation",
                     [cost_eur |-> num(IF "accommodation_eur" \in DOMAIN meta
                                       THEN meta.accommodation_eur
                                       ELSE meta.accommodation)])
            ELSE EmptyMap
      m5 == IF HasStr(meta, "transport_to_work")
            THEN One("transport", Trim(meta.transport_to_work)) ELSE EmptyMap
      m6 == IF HasStr(meta, "period") THEN One("period", Trim(meta.period)) ELSE EmptyMap
      m7 == IF HasStr(meta, "hours_monthly")
            THEN One("hours_monthly", num(meta.hours_monthly)) ELSE EmptyMap
      m8 == IF HasStr(meta, "schedule") THEN One("schedule", Trim(meta.schedule)) ELSE EmptyMap
      m9 == IF HasStr(meta, "location") THEN One("location", Trim(meta.location)) ELSE EmptyMap
      out == Merge(m1, Merge(m2, Merge(m3, Merge(m4, Merge(m5, Merge(m6, Merge(m7,
               Merge(m8, m9))))))))
      cap(field) == TextCapture(text, field)
      t1 == IF ~HasStr(out, "position") /\ cap("position") # ""
            THEN One("position", Trim(cap("position"))) ELSE EmptyMap
      t2 == IF "salary" \notin DOMAIN out /\ cap("salary") # ""
            THEN One("salary", [value |-> num(cap("salary")),
                                currency |-> IF RxCzk(cap("salary")) THEN "CZK" ELSE "EUR"])
            ELSE EmptyMap
      t3 == IF "accommodation" \notin DOMAIN out /\ cap("accommodation") # ""
            THEN One("accommodation", [cost_eur |-> num(cap("accommodation"))])
            ELSE EmptyMap
      t4 == IF ~HasNum(out, "hours_monthly") /\ cap("hours_monthly") # ""
            THEN One("hours_monthly", num(cap("hours_monthly"))) ELSE EmptyMap
      t5 == IF ~HasStr(out, "schedule") /\ cap("schedule") # ""
            THEN One("schedule", Trim(cap("schedule"))) ELSE EmptyMap
      t6 == IF ~HasStr(out, "period") /\ cap("period") # ""
            THEN One("period", Trim(cap("period"))) ELSE EmptyMap
      t7 == IF ~HasStr(out, "location") /\ cap("location") # ""
            THEN One("location", Trim(cap("location"))) ELSE EmptyMap
  IN  Merge(out, Merge(t1, Merge(t2, Merge(t3, Merge(t4, Merge(t5, Merge(t6, t7)))))))

\* the sentence a template of formatFactsShort yields for the facts of the
\* model (those of the Welder meta data and those of the Packer letter)
FactSentence(f, template) ==
  IF HasStr(f, "position") /\ f.position = "Welder"
  THEN CASE template = "salary"   -> "salary_welder"
         [] template = "housing"  -> "housing_welder"
         [] template = "hours"    -> "hours_welder"
         [] template = "location" -> "location_welder"
         [] template = "vizhu"    -> "vizhu_welder"
         [] template = "usloviya" -> "usloviya_welder"
         [] OTHER                 -> "usloviya_po_demandu"
  ELSE CASE template = "salary"   -> "salary_packer"
         [] template = "housing"  -> "housing_packer"
         [] template = "hours"    -> "hours_packer"
         [] template = "location" -> "location_packer"
         [] template = "vizhu"    -> "vizhu_packer"
         [] template = "usloviya" -> "usloviya_packer"
         [] OTHER                 -> "usloviya_po_demandu"

\* formatFactsShort(facts, topic); << >> is the empty string
formatFactsShort(f, topic) ==
  LET salaryStr == "salary" \in DOMAIN f /\ f.salary.value # 0
      accomStr  == "accommodation" \in DOMAIN f /\ f.accommodation.cost_eur # 0
      hoursStr  == HasNum(f, "hours_monthly")
      schedStr  == HasStr(f, "schedule")
      posStr    == HasStr(f, "position")
      locStr    == HasStr(f, "location")
      periodStr == HasStr(f, "period")
      line1     == posStr \/ locStr \/ periodStr
      line2     == salaryStr \/ accomStr \/ hoursStr \/ schedStr
  IN  IF topic = "salary" /\ salaryStr THEN << FactSentence(f, "salary") >>
      ELSE IF topic = "accommodation" /\ accomStr THEN << FactSentence(f, "housing") >>
      ELSE IF topic = "hours" /\ (hoursStr \/ schedStr) THEN << FactSentence(f, "hours") >>
      ELSE IF topic = "location" /\ locStr THEN << FactSentence(f, "location") >>
      ELSE IF line1 /\ line2
           THEN << FactSentence(f, "vizhu"), FactSentence(f, "usloviya") >>
      ELSE IF line1 THEN << FactSentence(f, "vizhu") >>
      ELSE IF line2 THEN << FactSentence(f, "usloviya_only") >>
      ELSE << >>

\* ---------------------------------------------------- repetitionGuard
MAX_SAME_PHRASE == 1
RG_COOLDOWN_TURNS == 6
MAX_QUESTIONS_IN_MSG == 1

Lookup(f, k, default) == IF k \in DOMAIN f THEN f[k] ELSE default

\* the loop of repetitionGuard over the sentences not yet visited; acc is
\* [out, phraseCounts, lastUsedTurn, questionsUsed], out being the pieces of
\* the sentences pushed so far (out.join(' '))
RECURSIVE GuardLoop(_, _, _)
GuardLoop(sentences, turn, acc) ==
  IF sentences = << >> THEN acc
  ELSE LET s        == Head(sentences)
           ns       == normPhrase(s)
           lastTurn == Lookup(acc.lastUsedTurn, ns, -999)
           cnt      == Lookup(acc.phraseCounts, ns, 0)
           isQ      == EndsWithQuestion(s)
           skip     == \/ HoldsStopPhrase(s)
                       \/ turn - lastTurn < RG_COOLDOWN_TURNS
                       \/ cnt >= MAX_SAME_PHRASE
                       \/ (isQ /\ acc.questionsUsed >= MAX_QUESTIONS_IN_MSG)
           next     == IF skip THEN acc
                       ELSE [out           |-> acc.out \o s,
                             phraseCounts  |-> Merge(acc.phraseCounts, One(ns, cnt + 1)),
                             lastUsedTurn  |-> Merge(acc.lastUsedTurn, One(ns, turn)),
                             questionsUsed |-> acc.questionsUsed + Bool2Int(isQ)]
       IN  GuardLoop(Tail(sentences), turn, next)

\* the loop of repetitionGuard without the test of questionsUsed (line 456)
RECURSIVE GuardLoop_NoQuestionCap(_, _, _)
GuardLoop_NoQuestionCap(sentences, turn, acc) ==
  IF sentences = << >> THEN acc
  ELSE LET s        == Head(sentences)
           ns       == normPhrase(s)
           lastTurn == Lookup(acc.lastUsedTurn, ns, -999)
           cnt      == Lookup(acc.phraseCounts, ns, 0)
           skip     == \/ HoldsStopPhrase(s)
                       \/ turn - lastTurn < RG_COOLDOWN_TURNS
                       \/ cnt >= MAX_SAME_PHRASE
           next     == IF skip THEN acc
                       ELSE [out           |-> acc.out \o s,
                             phraseCounts  |-> Merge(acc.phraseCounts, One(ns, cnt + 1)),
                             lastUsedTurn  |-> Merge(acc.lastUsedTurn, One(ns, turn)),
                             questionsUsed |-> acc.questionsUsed]
       IN  GuardLoop_NoQuestionCap(Tail(sentences), turn, next)

repetitionGuard_NoQuestionCap(reply, S) ==
  LET acc == GuardLoop_NoQuestionCap(splitSentences(reply), S.turn,
                       [out           |-> << >>,
                        phraseCounts  |-> S.repeatStats.phraseCounts,
                        lastUsedTurn  |-> S.repeatStats.lastUsedTurn,
                        questionsUsed |-> 0])
  IN  [reply |-> IF acc.out = << >> THEN << "ok" >> ELSE acc.out,
       S     |-> [S EXCEPT !.repeatStats.phraseCounts = acc.phraseCounts,
                           !.repeatStats.lastUsedTurn = acc.lastUsedTurn]]

\* repetitionGuard without the filler of line 465
repetitionGuard_NoFiller(reply, S) ==
  LET acc == GuardLoop(splitSentences(reply), S.turn,
                       [out           |-> << >>,
                        phraseCounts  |-> S.repeatStats.phraseCounts,
                        lastUsedTurn  |-> S.repeatStats.lastUsedTurn,
                        questionsUsed |-> 0])
  IN  [reply |-> acc.out,
       S     |-> [S EXCEPT !.repeatStats.phraseCounts = acc.phraseCounts,
                           !.repeatStats.lastUsedTurn = acc.lastUsedTurn]]

\* repetitionGuard(reply, sid) on the session record: the reply returned
\* and the record afterwards
repetitionGuard(reply, S) ==
  LET acc == GuardLoop(splitSentences(reply), S.turn,
                       [out           |-> << >>,
                        phraseCounts  |-> S.repeatStats.phraseCounts,
                        lastUsedTurn  |-> S.repeatStats.lastUsedTurn,
                        questionsUsed |-> 0])
  IN  [reply |-> IF acc.out = << >> THEN << "ok" >> ELSE acc.out,
       S     |-> [S EXCEPT !.repeatStats.phraseCounts = acc.phraseCounts,
                           !.repeatStats.lastUsedTurn = acc.lastUsedTurn]]

\* ----------------------------------------------------- chooseObjection
poolBudget      == << "budget_dorogo", "budget_summa" >>
poolAfterPermit == << "after_permit" >>
poolSlots       == << "slots_first" >>
poolDelay       == << "delay_check" >>

\* pool[Math.floor(r * pool.length)] for a draw r in thousandths
Pick(pool, r) == pool[((r * Len(pool)) \div 1000) + 1]

NoObjection == [none |-> TRUE, text |-> "", stage |-> ""]

\* chooseObjection with a generator seeded by the session id and by the
\* greeting line of the previous reply, not by the session id alone
chooseObjection_SeededByReply(S, sid, userText, uniqEvidence, hasDemand, hasCoop, stage) ==
  LET hasPriceTalk   == Test(RxObjection.PriceTalk, userText)
      mentionsPermit == Test(RxObjection.Permit, userText)
      mentionsSlots  == Test(RxObjection.Slots, userText)
      mentionsPay    == Test(RxObjection.MentionsPay, userText)
      hasTrigger     == hasPriceTalk \/ mentionsPermit \/ mentionsSlots \/ mentionsPay
                          \/ stage = "Payment"
      stageSuggestion == IF ~hasDemand THEN "Demand"
                         ELSE IF ~hasCoop THEN "Contract"
                         ELSE IF uniqEvidence < 2 THEN "Candidate"
                         ELSE "Payment"
      Return(chosen) == [obj |-> [none |-> FALSE, text |-> chosen, stage |-> stageSuggestion],
                         S   |-> [S EXCEPT !.lastObjection = chosen]]
      Chosen(first)  == Return(IF S.lastObjection # ""
                                  /\ LowerSentence(S.lastObjection) = LowerSentence(first)
                               THEN "akkuratno" ELSE first)
      Drawn(r)       == Chosen(IF hasPriceTalk THEN Pick(poolBudget, r)
                               ELSE IF mentionsPermit THEN poolAfterPermit[1]
                               ELSE IF mentionsSlots THEN poolSlots[1]
                               ELSE Pick(poolDelay, r))
  IN  IF ~hasTrigger THEN [obj |-> NoObjection, S |-> S]
      ELSE Drawn(seededRand(CharCodes(sid)
                              \o << Cardinality({ i \in 1..Len(GreetingVariants) :
                                       \E j \in 1..i :
                                         GreetingVariants[j] \in Range(S.lastReply) }) >>,
                            1))

\* chooseObjection with the stage left out of hasTrigger (line 488)
chooseObjection_NoStageTrigger(S, sid, userText, uniqEvidence, hasDemand, hasCoop, stage) ==
  LET hasPriceTalk   == Test(RxObjection.PriceTalk, userText)
      mentionsPermit == Test(RxObjection.Permit, userText)
      mentionsSlots  == Test(RxObjection.Slots, userText)
      mentionsPay    == Test(RxObjection.MentionsPay, userText)
      hasTrigger     == hasPriceTalk \/ mentionsPermit \/ mentionsSlots \/ mentionsPay
      stageSuggestion == IF ~hasDemand THEN "Demand"
                         ELSE IF ~hasCoop THEN "Contract"
                         ELSE IF uniqEvidence < 2 THEN "Candidate"
                         ELSE "Payment"
      Return(chosen) == [obj |-> [none |-> FALSE, text |-> chosen, stage |-> stageSuggestion],
                         S   |-> [S EXCEPT !.lastObjection = chosen]]
      Chosen(first)  == Return(IF S.lastObjection # ""
                                  /\ LowerSentence(S.lastObjection) = LowerSentence(first)
                               THEN "akkuratno" ELSE first)
      Drawn(r)       == Chosen(IF hasPriceTalk THEN Pick(poolBudget, r)
                               ELSE IF mentionsPermit THEN poolAfterPermit[1]
                               ELSE IF mentionsSlots THEN poolSlots[1]
                               ELSE Pick(poolDelay, r))
  IN  IF ~hasTrigger THEN [obj |-> NoObjection, S |-> S]
      ELSE Drawn(seededRand(CharCodes(sid), 1))

\* chooseObjection without the comparison with lastObjection (lines 496-498)
chooseObjection_NoCollisionCheck(S, sid, userText, uniqEvidence, hasDemand, hasCoop, stage) ==
  LET hasPriceTalk   == Test(RxObjection.PriceTalk, userText)
      mentionsPermit == Test(RxObjection.Permit, userText)
      mentionsSlots  == Test(RxObjection.Slots, userText)
      mentionsPay    == Test(RxObjection.MentionsPay, userText)
      hasTrigger     == hasPriceTalk \/ mentionsPermit \/ mentionsSlots \/ mentionsPay
                          \/ stage = "Payment"
      stageSuggestion == IF ~hasDemand THEN "Demand"
                         ELSE IF ~hasCoop THEN "Contract"
                         ELSE IF uniqEvidence < 2 THEN "Candidate"
                         ELSE "Payment"
      Return(chosen) == [obj |-> [none |-> FALSE, text |-> chosen, stage |-> stageSuggestion],
                         S   |-> [S EXCEPT !.lastObjection = chosen]]
      Chosen(first)  == Return(first)
      Drawn(r)       == Chosen(IF hasPriceTalk THEN Pick(poolBudget, r)
                               ELSE IF mentionsPermit THEN poolAfterPermit[1]
                               ELSE IF mentionsSlots THEN poolSlots[1]
                               ELSE Pick(poolDelay, r))
  IN  IF ~hasTrigger THEN [obj |-> NoObjection, S |-> S]
      ELSE Drawn(seededRand(CharCodes(sid), 1))

\* lines 501-505 with the test of the cooperation contract left out
stageSuggestion_NoCoopCheck(uniqEvidence, hasDemand, hasCoop) ==
  IF ~hasDemand THEN "Demand"
  ELSE IF uniqEvidence < 2 THEN "Candidate"
  ELSE "Payment"

\* let stageSuggestion, lines 501-505
stageSuggestion(uniqEvidence, hasDemand, hasCoop) ==
  IF ~hasDemand THEN "Demand"
  ELSE IF ~hasCoop THEN "Contract"
  ELSE IF uniqEvidence < 2 THEN "Candidate"
  ELSE "Payment"

\* chooseObjection: the objection returned (NoObjection for null) and the
\* session record afterwards
chooseObjection(S, sid, userText, uniqEvidence, hasDemand, hasCoop, stage) ==
  LET hasPriceTalk   == Test(RxObjection.PriceTalk, userText)
      mentionsPermit == Test(RxObjection.Permit, userText)
      mentionsSlots  == Test(RxObjection.Slots, userText)
      mentionsPay    == Test(RxObjection.MentionsPay, userText)
      hasTrigger     == hasPriceTalk \/ mentionsPermit \/ mentionsSlots \/ mentionsPay
                          \/ stage = "Payment"
      Return(chosen) == [obj |-> [none |-> FALSE, text |-> chosen, stage |-> stageSuggestion(uniqEvidence, hasDemand, hasCoop)],
                         S   |-> [S EXCEPT !.lastObjection = chosen]]
      Chosen(first)  == Return(IF S.lastObjection # ""
                                  /\ LowerSentence(S.lastObjection) = LowerSentence(first)
                               THEN "akkuratno" ELSE first)
      Drawn(r)       == Chosen(IF hasPriceTalk THEN Pick(poolBudget, r)
                               ELSE IF mentionsPermit THEN poolAfterPermit[1]
                               ELSE IF mentionsSlots THEN poolSlots[1]
                               ELSE Pick(poolDelay, r))
  IN  IF ~hasTrigger THEN [obj |-> NoObjection, S |-> S]
      ELSE Drawn(seededRand(CharCodes(sid), 1))

\* ----------------------------------------------------------- postRules
\* setActions.add(a) on a Set kept in insertion order
SetAdd(s, a) == IF a \in Range(s) THEN s ELSE Append(s, a)

OtherEvidenceKeys ==
  << "visa_sample", "presentation", "video", "website", "company_registry", "reviews",
     "registry_proof", "price_breakdown", "slot_plan", "invoice_template", "nda" >>

\* the loop of line 596 over the keys not yet visited
RECURSIVE BumpOthers(_, _, _, _)
BumpOthers(S, keys, inc, evidenceDetails) ==
  IF keys = << >> THEN S
  ELSE BumpOthers(IF Head(keys) \in inc
                  THEN bumpEvidence(S, Head(keys), DetailsOf(evidenceDetails, Head(keys)))
                  ELSE S,
                  Tail(keys), inc, evidenceDetails)

\* lines 514-566: the reply, stage, needEvidence and actions before the
\* evidence of the request is recorded
PostRulesDraft(S, parsed, history, userText, variant) ==
  LET who   == Test(RxPostRules.WhoAreYou, userText)
      r1    == IF who THEN << "ali" >> ELSE parsed.reply
      st1   == IF who /\ parsed.stage = Missing THEN "Greeting" ELSE parsed.stage
      reg   == Test(RxPostRules.Registration, userText)
      r2    == IF reg THEN registrationAnswer ELSE r1
      st2   == IF reg THEN "Demand" ELSE st1
      ne2   == IF reg THEN FALSE ELSE parsed.needEvidence
      isEarly == Len(history) <= 2 \/ st2 = Missing \/ st2 = "Greeting"
      r3    == IF isEarly THEN craftHumanGreeting(r2, userText, variant)
               ELSE rewriteVacancyQuestionToSupplierRole(r2)
      st3   == IF isEarly THEN "Greeting" ELSE st2
      DF    == getDemandFacts(S)
      topic == IF Test(RxPostRules.AskedSalary, userText) THEN "salary"
               ELSE IF Test(RxPostRules.AskedHouse, userText) THEN "accommodation"
               ELSE IF Test(RxPostRules.AskedHours, userText) THEN "hours"
               ELSE IF Test(RxPostRules.AskedLoc, userText) THEN "location"
               ELSE IF Test(RxPostRules.AskedWhatJob, userText) THEN "all"
               ELSE "none"
      asked == DOMAIN DF # {} /\ topic # "none"
      r4    == IF asked /\ formatFactsShort(DF, topic) # << >>
               THEN formatFactsShort(DF, topic) ELSE r3
      st4   == IF asked /\ st3 = Missing THEN "Demand" ELSE st3
      what  == Test(RxPostRules.WhatNeeded, userText)
      acts  == Dedupe(parsed.suggestedActions)
  IN  [reply        |-> IF what THEN << "what_needed" >> ELSE r4,
       stage        |-> IF what
                        THEN (IF hasEvidence(S, "demand_letter") THEN "Contract"
                              ELSE "Demand")
                        ELSE st4,
       needEvidence |-> IF what THEN TRUE ELSE ne2,
       setActions   |-> IF what THEN SetAdd(SetAdd(acts, "ask_demands"), "ask_coop_contract")
                        ELSE acts]

\* lines 568-598 with setDemandFacts moved out of the branch of line 572: the
\* facts of the details are merged on every turn that carries some
PostRulesEvidence_FactsEveryTurn(S, d, inc, evidenceDetails) ==
  LET f3 == "coop_contract_pdf" \in inc
      Recorded(S5, f1, f2) ==
        [S            |-> BumpOthers(S5, OtherEvidenceKeys, inc, evidenceDetails),
         reply        |-> d.reply,
         stage        |-> IF f1 \/ f2 \/ f3 THEN "Contract" ELSE d.stage,
         needEvidence |-> IF f3 THEN FALSE ELSE IF f1 \/ f2 THEN TRUE ELSE d.needEvidence,
         setActions   |-> IF f1 \/ f2 THEN SetAdd(d.setActions, "ask_coop_contract")
                          ELSE d.setActions,
         forced       |-> { k \in {"demand_letter", "sample_contract_pdf",
                                    "coop_contract_pdf"} :
                              \/ (k = "demand_letter" /\ f1)
                              \/ (k = "sample_contract_pdf" /\ f2)
                              \/ (k = "coop_contract_pdf" /\ f3) }]
      AfterSample(S4, f1) ==
        Recorded(IF f3 THEN bumpEvidence(S4, "coop_contract_pdf", Undefined) ELSE S4,
                 f1,
                 "sample_contract_pdf" \in inc /\ ~hasEvidence(S4, "coop_contract_pdf"))
      AfterDemand(S3) ==
        AfterSample(IF "sample_contract_pdf" \in inc
                    THEN bumpEvidence(S3, "sample_contract_pdf", Undefined) ELSE S3,
                    "demand_letter" \in inc /\ ~hasEvidence(S3, "coop_contract_pdf"))
      AfterCard(S2, facts) ==
        AfterDemand(IF "demand_letter" \in inc
                    THEN (IF DOMAIN facts # {}
                          THEN setDemandFacts(bumpEvidence(S2, "demand_letter", Undefined), facts)
                          ELSE bumpEvidence(S2, "demand_letter", Undefined))
                    ELSE IF DOMAIN facts # {} THEN setDemandFacts(S2, facts)
                    ELSE S2)
  IN  AfterCard(IF "business_card" \in inc \/ "business_card" \in DOMAIN evidenceDetails
                THEN bumpEvidence(S, "business_card", DetailsOf(evidenceDetails, "business_card"))
                ELSE S,
                extractDemandFactsFromDetails(evidenceDetails))

\* lines 568-598: the evidence of the request is recorded; forced holds the
\* keys whose branch set the stage to Contract
PostRulesEvidence(S, d, inc, evidenceDetails) ==
  LET f3 == "coop_contract_pdf" \in inc
      Recorded(S5, f1, f2) ==
        [S            |-> BumpOthers(S5, OtherEvidenceKeys, inc, evidenceDetails),
         reply        |-> d.reply,
         stage        |-> IF f1 \/ f2 \/ f3 THEN "Contract" ELSE d.stage,
         needEvidence |-> IF f3 THEN FALSE ELSE IF f1 \/ f2 THEN TRUE ELSE d.needEvidence,
         setActions   |-> IF f1 \/ f2 THEN SetAdd(d.setActions, "ask_coop_contract")
                          ELSE d.setActions,
         forced       |-> { k \in {"demand_letter", "sample_contract_pdf",
                                    "coop_contract_pdf"} :
                              \/ (k = "demand_letter" /\ f1)
                              \/ (k = "sample_contract_pdf" /\ f2)
                              \/ (k = "coop_contract_pdf" /\ f3) }]
      AfterSample(S4, f1) ==
        Recorded(IF f3 THEN bumpEvidence(S4, "coop_contract_pdf", Undefined) ELSE S4,
                 f1,
                 "sample_contract_pdf" \in inc /\ ~hasEvidence(S4, "coop_contract_pdf"))
      AfterDemand(S3) ==
        AfterSample(IF "sample_contract_pdf" \in inc
                    THEN bumpEvidence(S3, "sample_contract_pdf", Undefined) ELSE S3,
                    "demand_letter" \in inc /\ ~hasEvidence(S3, "coop_contract_pdf"))
      AfterCard(S2, facts) ==
        AfterDemand(IF "demand_letter" \in inc
                    THEN (IF DOMAIN facts # {}
                          THEN setDemandFacts(bumpEvidence(S2, "demand_letter", Undefined), facts)
                          ELSE bumpEvidence(S2, "demand_letter", Undefined))
                    ELSE S2)
  IN  AfterCard(IF "business_card" \in inc \/ "business_card" \in DOMAIN evidenceDetails
                THEN bumpEvidence(S, "business_card", DetailsOf(evidenceDetails, "business_card"))
                ELSE S,
                extractDemandFactsFromDetails(evidenceDetails))

\* the objection step asked only on a trigger word (line 611 without its first test)
PostRulesPayment_TriggerOnly(e, trust, userText, sid) ==
  LET pay  == Test(RxPostRules.PayChannel, userText) /\ Test(RxPostRules.PayWord, userText)
      st9  == IF pay THEN "Payment" ELSE e.stage
      uniqEvidence == evidenceCountUnique(e.S)
      hasDemandEv  == hasEvidence(e.S, "demand_letter")
      hasCoopEv    == hasEvidence(e.S, "coop_contract_pdf")
      ask  == Test(RxPostRules.ObjectionTrigger, userText)
      a1   == IF ~hasDemandEv THEN SetAdd(e.setActions, "ask_demands") ELSE e.setActions
      a2   == IF ~hasCoopEv THEN SetAdd(a1, "ask_coop_contract") ELSE a1
      Asked(obj, reply, stage) ==
        [asked |-> ask, userText |-> userText, stage |-> st9, result |-> obj,
         reply |-> reply, stageOut |-> stage]
      Objected(co) ==
        IF ~co.obj.none
        THEN [S            |-> co.S,
              reply        |-> << co.obj.text >>,
              stage        |-> co.obj.stage,
              needEvidence |-> ~hasDemandEv \/ ~hasCoopEv \/ uniqEvidence < 2,
              setActions   |-> a2,
              forced       |-> e.forced,
              objection    |-> Asked(co.obj, << co.obj.text >>, co.obj.stage)]
        ELSE [S            |-> co.S,
              reply        |-> IF pay THEN << "pay_after_visa", "no_crypto" >> ELSE e.reply,
              stage        |-> st9,
              needEvidence |-> IF pay THEN FALSE ELSE e.needEvidence,
              setActions   |-> e.setActions,
              forced       |-> e.forced,
              objection    |-> Asked(co.obj,
                                     IF pay THEN << "pay_after_visa", "no_crypto" >>
                                     ELSE e.reply,
                                     st9)]
  IN  Objected(IF ask THEN chooseObjection(e.S, sid, userText, uniqEvidence, hasDemandEv,
                                           hasCoopEv, st9)
               ELSE [obj |-> NoObjection, S |-> e.S])

\* lines 600-624: the reactive payment answer and the objection
PostRulesPayment(e, trust, userText, sid) ==
  LET pay  == Test(RxPostRules.PayChannel, userText) /\ Test(RxPostRules.PayWord, userText)
      st9  == IF pay THEN "Payment" ELSE e.stage
      uniqEvidence == evidenceCountUnique(e.S)
      hasDemandEv  == hasEvidence(e.S, "demand_letter")
      hasCoopEv    == hasEvidence(e.S, "coop_contract_pdf")
      ask  == (st9 = "Payment" /\ trust < 90) \/ Test(RxPostRules.ObjectionTrigger, userText)
      a1   == IF ~hasDemandEv THEN SetAdd(e.setActions, "ask_demands") ELSE e.setActions
      a2   == IF ~hasCoopEv THEN SetAdd(a1, "ask_coop_contract") ELSE a1
      Asked(obj, reply, stage) ==
        [asked |-> ask, userText |-> userText, stage |-> st9, result |-> obj,
         reply |-> reply, stageOut |-> stage]
      Objected(co) ==
        IF ~co.obj.none
        THEN [S            |-> co.S,
              reply        |-> << co.obj.text >>,
              stage        |-> co.obj.stage,
              needEvidence |-> ~hasDemandEv \/ ~hasCoopEv \/ uniqEvidence < 2,
              setActions   |-> a2,
              forced       |-> e.forced,
              objection    |-> Asked(co.obj, << co.obj.text >>, co.obj.stage)]
        ELSE [S            |-> co.S,
              reply        |-> IF pay THEN << "pay_after_visa", "no_crypto" >> ELSE e.reply,
              stage        |-> st9,
              needEvidence |-> IF pay THEN FALSE ELSE e.needEvidence,
              setActions   |-> e.setActions,
              forced       |-> e.forced,
              objection    |-> Asked(co.obj,
                                     IF pay THEN << "pay_after_visa", "no_crypto" >>
                                     ELSE e.reply,
                                     st9)]
  IN  Objected(IF ask THEN chooseObjection(e.S, sid, userText, uniqEvidence, hasDemandEv,
                                           hasCoopEv, st9)
               ELSE [obj |-> NoObjection, S |-> e.S])

\* lines 626-664: the reply is cleaned and guarded against repetition, and
\* the final gate and the documents rule settle the stage
PostRulesFinish(p, parsed, trust, inc) ==
  LET clean    == Sanitize(p.reply)
      unlooped == IF clean # << >> /\ p.S.lastReply # << >>
                     /\ ToLower(clean) = ToLower(p.S.lastReply)
                  THEN << "ok" >> ELSE clean
      Gated(S8, reply) ==
        LET gatesOk == trust >= 90 /\ evidenceCountUnique(S8) >= 2
                          /\ hasEvidence(S8, "coop_contract_pdf")
            st13    == IF gatesOk THEN "Payment" ELSE p.stage
            docs    == \E i \in 1..Len(reply) : reply[i] \in RxReplyDocs
        IN  [S      |-> S8,
             inc    |-> inc,
             forced |-> p.forced,
             guardIn |-> unlooped,
             objection |-> p.objection,
             parsed |-> [reply            |-> reply,
                         stage            |-> IF docs /\ (st13 = Missing \/ st13 = "Greeting")
                                              THEN "Demand" ELSE st13,
                         confidence       |-> parsed.confidence,
                         needEvidence     |-> IF gatesOk THEN FALSE ELSE p.needEvidence,
                         suggestedActions |-> normalizeActions(p.setActions)]]
      Guarded(rg) == Gated([rg.S EXCEPT !.lastReply = rg.reply], rg.reply)
  IN  Guarded(repetitionGuard(unlooped, p.S))

\* postRules with inc holding every key of the request, seen or not
postRules_IncAll(S, parsed, trust, evidences, history, userTextIn, sid, evidenceDetails, variant) ==
  LET S1       == [S EXCEPT !.turn = @ + 1]
      userText == redirectEmployerContractToCoop(userTextIn)
      inc      == Range(evidences)
  IN  PostRulesFinish(
        PostRulesPayment(
          PostRulesEvidence(S1, PostRulesDraft(S1, parsed, history, userText, variant),
                            inc, evidenceDetails),
          trust, userText, sid),
        parsed, trust, inc)

\* postRules on the session record S of sid: the record afterwards, the
\* object returned, the locals inc and forced of the call and the reply
\* handed to repetitionGuard.  variant is
\* the Math.random() choice of the greeting.
postRules(S, parsed, trust, evidences, history, userTextIn, sid, evidenceDetails, variant) ==
  LET S1       == [S EXCEPT !.turn = @ + 1]
      userText == redirectEmployerContractToCoop(userTextIn)
      inc      == { k \in Range(evidences) : ~hasEvidence(S1, k) }
  IN  PostRulesFinish(
        PostRulesPayment(
          PostRulesEvidence(S1, PostRulesDraft(S1, parsed, history, userText, variant),
                            inc, evidenceDetails),
          trust, userText, sid),
        parsed, trust, inc)

\* ------------------------------------------------- the purchase decision
\* Probabilities and draws are in thousandths.
evaluateObjectionHandling(text) ==
  LET score == Bool2Int(Test(RxHandling.Empathy, text)) + Bool2Int(Test(RxHandling.Value, text))
                 + Bool2Int(Test(RxHandling.SmallStart, text)) + Bool2Int(Test(RxHandling.Mission, text))
                 + Bool2Int(Test(RxHandling.SoftClose, text))
  IN  IF score >= 4 THEN [level |-> "strong", bonus |-> 100, score |-> score]
      ELSE IF score >= 2 THEN [level |-> "weak", bonus |-> 30, score |-> score]
      ELSE [level |-> "none", bonus |-> 0, score |-> score]

evaluateCryptoPitch(text) ==
  LET score == Bool2Int(Test(RxPitch.BankDays, text) \/ Test(RxPitch.BankDaysEn, text))
                 + Bool2Int(Test(RxPitch.FiveMin, text)) + Bool2Int(Test(RxPitch.Faster, text))
  IN  IF score >= 2 THEN [level |-> "strong", score |-> score]
      ELSE IF score = 1 THEN [level |-> "weak", score |-> score]
      ELSE [level |-> "none", score |-> score]

\* decideCryptoAcceptance; r is the draw rnd() returns
decideCryptoAcceptance(trust, cryptoFx, r) ==
  LET base  == IF trust >= 100 THEN 450
               ELSE IF trust >= 90 THEN 300
               ELSE IF trust >= 80 THEN 150
               ELSE 50
      bonus == IF cryptoFx.level = "strong" THEN 150
               ELSE IF cryptoFx.level = "weak" THEN 50
               ELSE 0
      p     == Max(0, Min(750, base + bonus))
  IN  r < p

\* chooseCandidateCount; r1 and r2 are the first and the second draw made
\* (the second is made only from 0.94 on)
chooseCandidateCount(r1, r2) ==
  IF r1 < 500 THEN [n |-> 1, draws |-> 1]
  ELSE IF r1 < 750 THEN [n |-> 2, draws |-> 1]
  ELSE IF r1 < 850 THEN [n |-> 3, draws |-> 1]
  ELSE IF r1 < 900 THEN [n |-> 4, draws |-> 1]
  ELSE IF r1 < 940 THEN [n |-> 5, draws |-> 1]
  ELSE IF r1 < 970 THEN [n |-> 6 + ((r2 * 2) \div 1000), draws |-> 2]
  ELSE [n |-> 8 + ((r2 * 3) \div 1000), draws |-> 2]

pluralRu(n, one, few, many) ==
  LET n10 == n % 10  n100 == n % 100
  IN  IF n10 = 1 /\ n100 # 11 THEN one
      ELSE IF n10 >= 2 /\ n10 <= 4 /\ (n100 < 12 \/ n100 > 14) THEN few
      ELSE many

baseProbByTrust(t) ==
  IF t >= 100 THEN 500 ELSE IF t >= 90 THEN 350 ELSE IF t >= 80 THEN 50 ELSE 10

\* rnd() < pBuy with pBuy = min(0.85, base + bonus) in double precision:
\* 0.05 + 0.10 is 0.15000000000000002, so the draw 0.150 is below it; every
\* other sum compares as its thousandths do
DrawBelow(r, base, bonus) ==
  \/ r < Max(0, Min(850, base + bonus))
  \/ (base = 50 /\ bonus = 100 /\ r = 150)

\* `Стартуем с ${candidates} кандидат${pluralRu(...)}.`
StartSentence(n, ending) ==
  IF ending = "om"
  THEN CASE n = 1 -> "start_1" [] OTHER -> "start_om"
  ELSE CASE n = 2 -> "start_2" [] n = 3 -> "start_3" [] n = 4 -> "start_4"
         [] n = 5 -> "start_5" [] n = 6 -> "start_6" [] n = 7 -> "start_7"
         [] n = 8 -> "start_8" [] n = 9 -> "start_9" [] n = 10 -> "start_10"
         [] OTHER -> "start_ami"

NoDecision ==
  [none |-> TRUE, reply |-> << >>, stage |-> Missing, needEvidence |-> FALSE,
   actions |-> << >>]

\* lines 810-816: the draw against pBuy, for the seed of the turn
willBuy(trust, userText, seed) ==
  DrawBelow(seededRand(seed, 1), baseProbByTrust(trust),
            evaluateObjectionHandling(userText).bonus)

\* lines 818-824: the commitment message
buyLine(trust, userText, seed) ==
  LET Line(cand) ==
        << "gotov_sotrudnichat",
           StartSentence(cand.n, pluralRu(cand.n, "om", "ami", "ami")),
           IF decideCryptoAcceptance(trust, evaluateCryptoPitch(userText),
                                     seededRand(seed, 2 + cand.draws))
           THEN "crypto_rekvizity" ELSE "bank_schet" >>
  IN  Line(chooseCandidateCount(seededRand(seed, 2), seededRand(seed, 3)))

\* applyAliPurchaseDecision without the alreadyCommitted guard of line 793
applyAliPurchaseDecision_NoCommitGuard(S, trust, userText, sid) ==
  LET prereqsOk == hasEvidence(S, "business_card") /\ hasEvidence(S, "demand_letter")
                     /\ hasEvidence(S, "sample_contract_pdf")
                     /\ hasEvidence(S, "coop_contract_pdf") /\ trust >= 70
  IN  IF ~prereqsOk \/ ~willBuy(trust, userText, BuySeed(sid, S.turn))
      THEN [decision |-> NoDecision, S |-> S]
      ELSE [decision |-> [none |-> FALSE,
                          reply |-> buyLine(trust, userText, BuySeed(sid, S.turn)),
                          stage |-> "Payment", needEvidence |-> FALSE,
                          actions |-> << "invoice_request" >>],
            S        |-> [S EXCEPT !.alreadyCommitted = TRUE]]

\* applyAliPurchaseDecision without the trust floor of line 800
applyAliPurchaseDecision_NoTrustFloor(S, trust, userText, sid) ==
  LET prereqsOk == hasEvidence(S, "business_card") /\ hasEvidence(S, "demand_letter")
                     /\ hasEvidence(S, "sample_contract_pdf")
                     /\ hasEvidence(S, "coop_contract_pdf")
  IN  IF S.alreadyCommitted \/ ~prereqsOk \/ ~willBuy(trust, userText, BuySeed(sid, S.turn))
      THEN [decision |-> NoDecision, S |-> S]
      ELSE [decision |-> [none |-> FALSE,
                          reply |-> buyLine(trust, userText, BuySeed(sid, S.turn)),
                          stage |-> "Payment", needEvidence |-> FALSE,
                          actions |-> << "invoice_request" >>],
            S        |-> [S EXCEPT !.alreadyCommitted = TRUE]]

\* applyAliPurchaseDecision on the session record S of sid: the decision
\* returned (NoDecision for null) and the record afterwards
applyAliPurchaseDecision(S, trust, userText, sid) ==
  LET prereqsOk == hasEvidence(S, "business_card") /\ hasEvidence(S, "demand_letter")
                     /\ hasEvidence(S, "sample_contract_pdf")
                     /\ hasEvidence(S, "coop_contract_pdf") /\ trust >= 70
  IN  IF S.alreadyCommitted \/ ~prereqsOk \/ ~willBuy(trust, userText, BuySeed(sid, S.turn))
      THEN [decision |-> NoDecision, S |-> S]
      ELSE [decision |-> [none |-> FALSE,
                          reply |-> buyLine(trust, userText, BuySeed(sid, S.turn)),
                          stage |-> "Payment", needEvidence |-> FALSE,
                          actions |-> << "invoice_request" >>],
            S        |-> [S EXCEPT !.alreadyCommitted = TRUE]]

\* -------------------------------------------------------------- runLLM
\* What the model call of one turn yields: an exception of
\* createChatWithRetry ("throw"), a content LLMShape rejects or that holds
\* no JSON object ("invalid"), or an object LLMShape accepts ("json").
\* In a draft, Missing is an absent stage, -1 an absent confidence, and
\* needEvidence is "true", "false" or Missing.
LlmThrow   == [kind |-> "throw", reply |-> << >>, stage |-> Missing, confidence |-> -1,
               needEvidence |-> Missing, suggestedActions |-> << >>]
LlmInvalid == [LlmThrow EXCEPT !.kind = "invalid"]

\* computeTrust as server.js imports it (line 15: from './trust.js')
ImportedComputeTrust(baseTrust, evidences, history, lastUserText) ==
  computeTrustLegacy(baseTrust, evidences, history, lastUserText)

\* x || 'default'
OrDefault(sid) == IF sid = Missing THEN "default" ELSE sid

\* lines 866-893: the draft as postRules receives it
ParsedDraft(llm, stage, trust) ==
  LET fallback == llm.kind = "invalid"
      reply    == IF fallback
                  THEN (IF stage = "Payment" THEN << "fb_payment" >> ELSE << "fb_describe" >>)
                  ELSE llm.reply
      conf     == IF fallback THEN Max(0, Min(60, trust))
                  ELSE IF llm.confidence = -1 THEN trust ELSE llm.confidence
      st       == IF fallback \/ llm.stage = Missing
                  THEN (IF stage = Missing THEN "Greeting" ELSE stage)
                  ELSE llm.stage
  IN  [reply            |-> reply,
       stage            |-> st,
       confidence       |-> Max(0, Min(100, conf)),
       needEvidence     |-> ~fallback /\ llm.needEvidence = "true",
       suggestedActions |-> IF fallback THEN << >> ELSE llm.suggestedActions]

\* runLLM for an llm outcome other than "throw": the store afterwards, the
\* object returned, and the locals inc and forced of postRules
runLLM(store, history, message, evidences, stage, sessionId, evidenceDetails, llm, variant) ==
  LET sid == OrDefault(sessionId)
      Returned(store3, trust, pr) ==
        [store         |-> store3,
         trust         |-> trust,
         evidenceCount |-> evidenceCountUnique(store3[sid]),
         result        |-> pr.parsed,
         inc           |-> pr.inc,
         forced        |-> pr.forced,
         guardIn       |-> pr.guardIn,
         objection     |-> pr.objection]
      Ruled(store1, trust, pr) ==
        Returned(getState([store1 EXCEPT ![sid] = pr.S], sid), trust, pr)
      WithTrust(store1, trust) ==
        Ruled(store1, trust,
              postRules(store1[sid], ParsedDraft(llm, stage, trust), trust, evidences,
                        history, redirectEmployerContractToCoop(message), sid,
                        evidenceDetails, variant))
  IN  WithTrust(getState(store, sid),
              ImportedComputeTrust(Num(Pts(20)), Range(evidences), history, message))

\* ======================================================================
\* The scorer as a program: inputs drawn from samples, then one call.
\* ======================================================================
VARIABLES
  tBase,        \* computeTrust argument baseTrust (a JS value)
  tEvidences,   \* argument evidences: the set of raw strings of the list
  tHistory,     \* argument history: sequence of [role, content, stage]
  tLast,        \* argument lastUserText
  tModule,      \* which revision was called: "none", "v11", "legacy", "v5"
  tTrust,       \* the value returned ("none" before the call)
  sessionState, \* the Map sessionState: session id -> session record
  response,     \* what the last handler sent (or the last direct call returned)
  call,         \* the last runLLM call: session id, evidences argument, and
                \* the locals inc and forced of its postRules and the reply
                \* its postRules handed to repetitionGuard, and what its
                \* postRules asked of chooseObjection and got back, with the
                \* reply and stage it held after that step (line 624)
  twin,         \* a second server process, independent of the first: its
                \* sessionState Map and the requests it holds at the await
  pending,      \* the requests held at `await createChatWithRetry` (runLLM
                \* line 855), in the order they arrived
  settled,      \* what an observer noted: of overlapping requests, the
                \* requests answered so far, in the order in which they
                \* were answered; of two processes, the last invocation of
                \* chooseObjection and of applyAliPurchaseDecision in each
  retry,        \* one invocation of createChatWithRetry: its position, its
                \* locals tries and lastErr, what it returned or threw, and
                \* the outcomes of the calls of the LLM it made so far
  rlStore,      \* the Map rlStore of miniRateLimit: ip -> [count, reset]
  clock,        \* Date.now(), in milliseconds
  limited       \* what miniRateLimit did with the last request

trustVars == << tBase, tEvidences, tHistory, tLast, tModule, tTrust >>

serverVars == << sessionState, response, call, twin, pending, settled >>

edgeVars == << retry, rlStore, clock, limited >>

vars == << tBase, tEvidences, tHistory, tLast, tModule, tTrust,
           sessionState, response, call, twin, pending, settled,
           retry, rlStore, clock, limited >>

\* createChatWithRetry has not been invoked
IdleRetry ==
  [pc |-> "idle", payload |-> "", tries |-> 0, lastErr |-> "", value |-> "",
   attempts |-> << >>]

\* miniRateLimit has not been called
NoVerdict == [path |-> << >>, ip |-> "", verdict |-> "none", retryAfter |-> 0]

\* the server has served nothing: no LLM call, an empty rlStore
EdgeIdle ==
  /\ retry = IdleRetry
  /\ rlStore = [k \in {} |-> 0]
  /\ clock = 0
  /\ limited = NoVerdict

NoResponse ==
  [op |-> "none", status |-> 0, none |-> TRUE, trust |-> 0, evidenceCount |-> 0,
   reply |-> << >>, stage |-> Missing, needEvidence |-> FALSE, confidence |-> -1,
   actions |-> << >>]

NoTwin == [store |-> EmptyMap, pending |-> << >>]

\* no call of chooseObjection
NoAsk == [asked |-> FALSE, userText |-> {}, stage |-> Missing, result |-> NoObjection,
          reply |-> << >>, stageOut |-> Missing]

NoCall == [sid |-> Missing, evidences |-> << >>, inc |-> {}, forced |-> {}, guardIn |-> << >>,
           objection |-> NoAsk]

BaseSamples == { Num(-20), Num(Pts(20)), Num(81), Num(Pts(120)), Undefined, NotANum }

RawEvidence == { "demand_letter", "coop_contract_pdf", "contract_pdf", "website",
                 "reviews", "business_card", " Demand_Letter " }

TextEmpty    == {}
TextRedFlags == {"kontrakt", "zavtra", "garantiruyu"}
TextPersonal == {"semya", "pozhaluysta"}
TextBusiness == {"demand", "kontrakt", "schet", "sayt", "zarplata", "vakansiya",
                 "eur", "2025", "Brno"}
TextCrypto   == {"usdt", "predoplata", "rekvizity", "demand"}
TextMixed    == {"semya", "demand", "kontrakt", "schet", "pozhaluysta"}

LastSamples == { TextEmpty, TextRedFlags, TextPersonal, TextBusiness, TextCrypto,
                 TextMixed }

TurnSamples ==
  { [role |-> "user",      content |-> {"schet", "pozhaluysta", "semya"},
     stage |-> "Payment"],
    [role |-> "assistant", content |-> {"zdravstvuyte", "okey_ishchite"},
     stage |-> "Candidate"],
    [role |-> "user",      content |-> {"srochno", "inache", "predoplata", "zarplata"},
     stage |-> "Contract"],
    [role |-> "user",      content |-> {"demand", "sayt", "grafik"},
     stage |-> ""] }

Histories == UNION { [1..n -> TurnSamples] : n \in 0..MaxHist }

InitTrust ==
  /\ tBase \in BaseSamples
  /\ tEvidences \in SUBSET RawEvidence
  /\ tHistory \in Histories
  /\ tLast \in LastSamples
  /\ tModule = "none"
  /\ tTrust = "none"
  /\ sessionState = EmptyMap
  /\ response = NoResponse
  /\ call = NoCall
  /\ twin = NoTwin
  /\ pending = << >>
  /\ settled = << >>
  /\ EdgeIdle

\* a call of computeTrust as exported by the v -11 revision
CallComputeTrust ==
  /\ tModule = "none"
  /\ tModule' = "v11"
  /\ tTrust' = computeTrust(tBase, tEvidences, tHistory, tLast)
  /\ UNCHANGED << edgeVars, tBase, tEvidences, tHistory, tLast, sessionState, response, call, twin, pending, settled >>

\* a call of computeTrust as exported by trust.js
CallComputeTrustLegacy ==
  /\ tModule = "none"
  /\ tModule' = "legacy"
  /\ tTrust' = computeTrustLegacy(tBase, tEvidences, tHistory, tLast)
  /\ UNCHANGED << edgeVars, tBase, tEvidences, tHistory, tLast, sessionState, response, call, twin, pending, settled >>

NextTrust == CallComputeTrust \/ CallComputeTrustLegacy

SpecTrust == InitTrust /\ [][NextTrust]_vars

\* ======================================================================
\* Claims about the scorer (checked under SpecTrust)
\* ======================================================================
Scored      == tModule # "none"
NumericBase == tBase.kind = "num"
Kinds       == countKinds(tEvidences)
PassGate2   == (Kinds.hard >= 2) \/ (Kinds.hard >= 1 /\ Kinds.med >= 1)

\* the revision that was called, applied to another evidence list
Rescore(evidences) ==
  IF tModule = "v11" THEN computeTrust(tBase, evidences, tHistory, tLast)
  ELSE computeTrustLegacy(tBase, evidences, tHistory, tLast)

\* C1: for a finite numeric baseTrust and any evidence list, history and
\* latest message, computeTrust (either revision) returns an integer
\* between 0 and 100 inclusive.
C1_TrustInRange == (Scored /\ NumericBase) => tTrust \in 0..100

\* C1 witness: a call whose score before the final clamp was negative and
\* was returned as 0.
C1_Witness ==
  /\ tModule = "v11" /\ NumericBase
  /\ applyGates(rawScore(tBase, tEvidences, tHistory, tLast), Kinds.hard, Kinds.med,
                Cardinality(textSignals(tLast).red),
                "payment" \in Stages(tHistory)) < 0
  /\ tTrust = 0

\* C2 (as claimed): with no Hard-tier key in the evidence set computeTrust
\* never returns more than 30.  trust.js caps such a score at 50, not 30.
C2_NoHardAtMost30 == (Scored /\ NumericBase /\ Kinds.hard = 0) => tTrust <= 30

\* C2, restricted to the v -11 revision, where Gate 1 is 30.
C2_NoHardAtMost30_V11 ==
  (tModule = "v11" /\ NumericBase /\ Kinds.hard = 0) => tTrust <= 30

\* C3 (as claimed): computeTrust never returns more than 60 unless the
\* evidence holds >= 2 Hard keys or >= 1 Hard and >= 1 Medium key.
\* trust.js places this ceiling at 80.
C3_Gate2AtMost60 == (Scored /\ NumericBase /\ ~PassGate2) => tTrust <= 60

\* C3, restricted to the v -11 revision.
C3_Gate2AtMost60_V11 == (tModule = "v11" /\ NumericBase /\ ~PassGate2) => tTrust <= 60

\* C4 (as claimed): computeTrust never returns more than 75 unless the
\* evidence holds >= 2 Hard keys and the latest message raises no red flag.
\* trust.js places this ceiling at 90.
C4_Gate3AtMost75 ==
  (Scored /\ NumericBase
     /\ ~(Kinds.hard >= 2 /\ textSignals(tLast).red = {}))
  => tTrust <= 75

\* C4, restricted to the v -11 revision.
C4_Gate3AtMost75_V11 ==
  (tModule = "v11" /\ NumericBase
     /\ ~(Kinds.hard >= 2 /\ textSignals(tLast).red = {}))
  => tTrust <= 75

\* C5: adding one Hard-tier key that the evidence set does not hold never
\* lowers the value computeTrust returns, all other arguments equal
\* (baseTrust a number or left out).
C5_HardKeyMonotone ==
  (Scored /\ tBase.kind # "nan") =>
     \A k \in HARD_PROOFS \ Kinds.uniqSet : Rescore(tEvidences \cup {k}) >= tTrust

\* C5 witness: a call with a payment stage in the history, a personal
\* question in the latest message and no Hard key, where adding
\* demand_letter lifts the score over the Gate 1 ceiling.
C5_Witness ==
  /\ tModule = "v11" /\ NumericBase
  /\ "payment" \in Stages(tHistory)
  /\ Test(PERSONAL_RX, tLast)
  /\ Kinds.hard = 0
  /\ computeTrust(tBase, tEvidences \cup {"demand_letter"}, tHistory, tLast) > 30
  /\ tTrust <= 30

\* ======================================================================
\* The server as a program: requests to /api/reply and /chat
\* ======================================================================
MaxTurns == 2

Sids == {"s1", "default"}

\* res.status(400).json({ok: false, error})
BadRequest(op) == [NoResponse EXCEPT !.op = op, !.status = 400]

\* -------------------------------------------------------------- inputs
DetailsNone == EmptyMap
DetailsCard == [business_card |-> [name |-> "Viktor"]]
DetailsMeta ==
  [demand_meta |-> [position |-> " Welder ", salary_net_czk |-> "35 000",
                    accommodation_eur |-> "150", hours_monthly |-> "180",
                    location |-> "Brno"],
   website |-> EmptyMap]
DetailsText == [demand_text |-> "PackerLetter"]

NoHistory == << >>
LongHistory ==
  << [role |-> "user",      content |-> {"demand", "sayt", "grafik"}, stage |-> Missing],
     [role |-> "assistant", content |-> {"zdravstvuyte", "okey_ishchite"},
      stage |-> "Candidate"],
     [role |-> "system",    content |-> {"vakansiya", "Brno"}, stage |-> Missing] >>

EvArray(list) == [kind |-> "array", list |-> list, n |-> 0]
EvNumber(n)   == [kind |-> "number", list |-> << >>, n |-> n]
EvNone        == [kind |-> "none", list |-> << >>, n |-> 0]

Body(sessionId, message, stage, evidences, details, history) ==
  [sessionId |-> sessionId, message |-> message, stage |-> stage, evidences |-> evidences,
   evidence_details |-> details, history |-> history]

TextHandled == {"ponimayu", "reputatsiya", "partner", "kak_budete_gotovy",
                "bystree", "5_minut"}

\* bodies posted to /api/reply
ApiBodies ==
  { Body("s1", {"zdravstvuyte"}, Missing,
         EvArray(<< "Card", "demand", "sample", "contract_pdf", "website" >>),
         DetailsMeta, NoHistory),
    Body("s1", {"zarplata"}, Missing,
         EvArray(<< "demand_letter", " Demand_Letter ", "" >>), DetailsText, LongHistory),
    Body("s1", TextHandled, "Payment",
         EvArray(<< "business_card", "demand_letter", "sample_contract_pdf",
                    "coop_contract_pdf", "website", "reviews" >>),
         DetailsNone, LongHistory),
    Body("s1", {"employer_details", "work_permit"}, "Payment", EvNone, DetailsNone,
         LongHistory),
    Body("s1", {"chto_delat"}, "Candidate", EvNone, DetailsCard, LongHistory),
    Body(Missing, {"tsena"}, "Bogus", EvNumber(2), DetailsCard, NoHistory),
    Body("s1", {"chto_delat"}, "Bogus", EvNone, DetailsNone, LongHistory),
    Body("s1", {}, Missing, EvNone, DetailsNone, NoHistory) }

\* bodies posted to /chat (evidence_details is not read there)
ChatBodies ==
  { Body("s1", {"chto_nuzhno"}, "Contract",
         EvArray(<< "demand", "demand_letter", "sample" >>), DetailsNone, LongHistory),
    Body("default", {"schet", "bank"}, "Payment", EvArray(<< "contract_pdf" >>),
         DetailsNone, LongHistory),
    Body("default", {"RenovoGo"}, Missing, EvNone, DetailsNone, NoHistory),
    Body("s1", {"slot"}, Missing, EvArray(<< "Card" >>), DetailsNone, NoHistory),
    Body("s1", {"kak_vas_zovut"}, "Bogus", EvNone, DetailsNone, NoHistory),
    Body(Missing, {}, Missing, EvNone, DetailsNone, NoHistory) }

Draft(reply, stage, confidence, needEvidence, suggestedActions) ==
  [kind |-> "json", reply |-> reply, stage |-> stage, confidence |-> confidence,
   needEvidence |-> needEvidence, suggestedActions |-> suggestedActions]

LlmOutcomes ==
  { LlmThrow, LlmInvalid,
    Draft(<< "ponyatno", "kakie_sroki", "kakaya_zarplata" >>, Missing, -1, Missing, << >>),
    Draft(<< "spasibo_poluchil", "tsena_350", "gotov_kontrakt", "tsena_350" >>,
          "Payment", 55, "true",
          << "invoice_request", "ask_demands", "dance", "invoice_request" >>),
    Draft(<< "PONYATNO", "kak_vy", "rada_pomoch", "employer_details", "received_demand",
             "gotov_kontrakt" >>, "Contract", 100, "false", << "goodbye" >>),
    Draft(<< >>, "Closing", -1, Missing, << >>) }

\* Math.floor(Math.random() * 4) + 1, drawn only when the draft reply is blank
Variants(llm) == IF llm.kind = "json" /\ llm.reply = << >> THEN 1..4 ELSE {1}

STAGES == {"Greeting", "Demand", "Candidate", "Contract", "Payment", "Closing"}

\* ------------------------------------------------------------- actions
RECURSIVE SumTurns(_, _)
SumTurns(store, sids) ==
  IF sids = {} THEN 0
  ELSE LET s == CHOOSE x \in sids : TRUE
       IN  store[s].turn + SumTurns(store, sids \ {s})

TotalTurns == SumTurns(sessionState, DOMAIN sessionState)

Init ==
  /\ tBase = Undefined /\ tEvidences = {} /\ tHistory = << >> /\ tLast = {}
  /\ tModule = "none" /\ tTrust = "none"
  /\ sessionState = EmptyMap
  /\ response = NoResponse
  /\ call = NoCall
  /\ twin = NoTwin
  /\ pending = << >>
  /\ settled = << >>
  /\ EdgeIdle

\* what runLLM's caller sends and what the turn leaves behind
Answer(op, sid, evidences, out, whole) ==
  /\ sessionState' = out.store
  /\ response' = [op |-> op, status |-> 200, none |-> FALSE, trust |-> out.trust,
                  evidenceCount |-> out.evidenceCount,
                  reply |-> out.result.reply, stage |-> out.result.stage,
                  needEvidence |-> IF whole THEN out.result.needEvidence ELSE FALSE,
                  confidence |-> IF whole THEN out.result.confidence ELSE -1,
                  actions |-> IF whole THEN out.result.suggestedActions
                              ELSE normalizeActions(out.result.suggestedActions)]
  /\ call' = [sid |-> sid, evidences |-> evidences, inc |-> out.inc, forced |-> out.forced,
              guardIn |-> out.guardIn, objection |-> out.objection]

Refuse(op) ==
  /\ response' = BadRequest(op)
  /\ call' = NoCall
  /\ UNCHANGED sessionState

\* the keys of a request to /api/reply (lines 982-987)
ApiEvidences(b) ==
  IF b.evidences.kind = "array"
  THEN Dedupe(FilterTruthy(Map1(b.evidences.list, normalizeEvidenceKey)))
  ELSE IF b.evidences.kind = "number" THEN ProofKeys(b.evidences.n)
  ELSE << >>

\* the Map read when the request arrived and written back after the await
StoreForTurn_AtArrival(atArrival, now) == atArrival

\* the Map as it is when the task runs, with the turn counters as they were
\* when the request arrived
StoreForTurn_TurnAtArrival(atArrival, now) ==
  [sid \in DOMAIN now |->
     [now[sid] EXCEPT !.turn = IF sid \in DOMAIN atArrival THEN atArrival[sid].turn ELSE 0]]

\* const S = getState(sid) in postRules (line 511): the Map is read when the
\* task runs, after the await; nothing read when the request arrived is kept
StoreForTurn(atArrival, now) == now

\* A handler is an async function.  It runs from the arrival of the request
\* to `await createChatWithRetry` (runLLM line 855) as one task: the body is
\* validated, and computeTrust and buildMessages read the arguments only.
\* It is continued as another task when the call of the model settles, and
\* sessionState is read and written in that task alone (postRules, line
\* 511, and evidenceCountUnique).  Between the two, other requests arrive
\* and are continued.  An entry of pending is a request held at the await:
\* its route and body, and beside them the Map as it was on arrival, which
\* the handler does not read.
Suspend(op, b) ==
  /\ pending' = Append(pending, [op |-> op, body |-> b, store |-> sessionState])
  /\ UNCHANGED << sessionState, response, call >>

\* no request is held at the await
NoneAwaiting == pending = << >>

\* app.post('/api/reply') from the arrival of the request to the await of
\* runLLM (lines 974-994, 842-855): 400 for a blank message
ApiReply(b) ==
  /\ Len(pending) + TotalTurns < MaxTurns
  /\ IF b.message = {} THEN Refuse("/api/reply") /\ UNCHANGED pending
     ELSE Suspend("/api/reply", b)
  /\ UNCHANGED << edgeVars, trustVars, twin, settled >>

\* app.post('/chat') from the arrival of the request to the await of runLLM
\* (lines 1074-1082, 842-855): 400 when ChatSchema.parse throws
Chat(b) ==
  LET valid == b.message # {} /\ b.stage \in STAGES \cup {Missing}
  IN  /\ Len(pending) + TotalTurns < MaxTurns
      /\ IF ~valid THEN Refuse("/chat") /\ UNCHANGED pending
         ELSE Suspend("/chat", b)
      /\ UNCHANGED << edgeVars, trustVars, twin, settled >>

\* pending without its i-th request
Release(i) == SubSeq(pending, 1, i - 1) \o SubSeq(pending, i + 1, Len(pending))

\* the evidence keys a held request hands to runLLM (lines 982-987 for
\* /api/reply, line 1077 for /chat)
HeldEvidences(p) ==
  IF p.op = "/api/reply" THEN ApiEvidences(p.body)
  ELSE IF p.body.evidences.kind = "array"
  THEN Map1(p.body.evidences.list, normalizeEvidenceKey) ELSE << >>

\* what runLLM returns for the i-th of the requests held when the call of
\* the model settles with llm and Math.random() draws variant (lines
\* 855-906)
TurnOut(i, llm, variant) ==
  LET p == pending[i]
      b == p.body
  IN  runLLM(StoreForTurn(p.store, sessionState), sanitizeHistory(b.history), b.message,
             HeldEvidences(p), b.stage, OrDefault(b.sessionId),
             IF p.op = "/api/reply" THEN b.evidence_details ELSE EmptyMap, llm, variant)

\* either handler from the await on (runLLM lines 855-906, then lines
\* 1003-1018 or 1090-1094): the call of the model settles for the i-th of
\* the requests held, with one of the outcomes of drafts
ContinueAt(i, drafts) ==
  \E llm \in drafts :
    \E variant \in Variants(llm) :
      LET p == pending[i]
      IN  /\ IF llm.kind = "throw"
             THEN Refuse(p.op)
             ELSE Answer(p.op, OrDefault(p.body.sessionId), HeldEvidences(p),
                         TurnOut(i, llm, variant), p.op # "/api/reply")
          /\ pending' = Release(i)
          /\ UNCHANGED << edgeVars, trustVars, twin >>

\* the calls of the model settle in any order: any of the requests held is
\* the next to be continued
Continue(drafts) == \E i \in 1..Len(pending) : ContinueAt(i, drafts)

\* the continuation of a request, with no observer
Resume(drafts) == Continue(drafts) /\ UNCHANGED settled

\* the objection chooseObjection chose last for the session (S.lastObjection)
LastObjection(store, sid) == IF sid \in DOMAIN store THEN store[sid].lastObjection ELSE ""

TurnOf(store, sid) == IF sid \in DOMAIN store THEN store[sid].turn ELSE 0

\* the observer's note of the i-th request held when its continuation has
\* answered it: the request as it was held, how many requests that arrived
\* before it are still held, the keys its postRules took as new (inc) and
\* the turn number its postRules gave it (S.turn after line 512).  A request
\* whose call of the model threw left sessionState alone and is not noted.
Note(i) ==
  settled' = IF response'.status = 200
             THEN Append(settled,
                         [op |-> pending[i].op, body |-> pending[i].body,
                          store |-> pending[i].store, ahead |-> i - 1,
                          new |-> call'.inc,
                          turn |-> TurnOf(sessionState', call'.sid)])
             ELSE settled

\* the continuation of a request under the observer
ResumeNoted(drafts) == \E i \in 1..Len(pending) : ContinueAt(i, drafts) /\ Note(i)

PostApiReply == \E b \in ApiBodies : ApiReply(b)

PostChat == \E b \in ChatBodies : Chat(b)

Next == PostApiReply \/ PostChat \/ Resume(LlmOutcomes)

Spec == Init /\ [][Next]_vars

\* ------------------------------------ the purchase decision, called directly
TrustArgs == {0, 69, 70, 85, 90, 100}

PurchaseTexts == { {"zdravstvuyte"}, TextHandled }

\* the turns that bring a session to the call below
PurchaseBodies ==
  { Body("s1", {"zdravstvuyte"}, Missing,
         EvArray(<< "Card", "demand", "sample", "contract_pdf", "website" >>),
         DetailsMeta, NoHistory),
    Body("s1", {"zarplata"}, Missing,
         EvArray(<< "demand_letter", " Demand_Letter ", "" >>), DetailsText, LongHistory),
    Body(Missing, {"tsena"}, "Payment",
         EvArray(<< "business_card", "demand_letter", "sample_contract_pdf",
                    "coop_contract_pdf" >>),
         DetailsNone, LongHistory) }

PostPurchaseTurn == \E b \in PurchaseBodies : ApiReply(b)

\* applyAliPurchaseDecision({trust, userText, sid}); postRules and runLLM do
\* not call it, so it is exercised by a caller of its own.  The function is
\* synchronous; the caller calls it when no request is held, which loses
\* nothing: the arrival of a request leaves what the call reads and writes,
\* so a call made while a request is held equals one made before it arrived.
CallPurchaseDecision ==
  \E sid \in Sids, trust \in TrustArgs, userText \in PurchaseTexts :
     LET Decided(store1, out) ==
           /\ sessionState' = [store1 EXCEPT ![sid] = out.S]
           /\ response' = [op |-> "applyAliPurchaseDecision", status |-> 0,
                           none |-> out.decision.none, trust |-> trust,
                           evidenceCount |-> 0, reply |-> out.decision.reply,
                           stage |-> out.decision.stage,
                           needEvidence |-> out.decision.needEvidence, confidence |-> -1,
                           actions |-> out.decision.actions]
           /\ call' = [NoCall EXCEPT !.sid = sid]
           /\ UNCHANGED << edgeVars, trustVars, twin, pending, settled >>
     IN  /\ NoneAwaiting
         /\ Decided(getState(sessionState, sid),
                    applyAliPurchaseDecision(getState(sessionState, sid)[sid], trust,
                                             userText, sid))

NextPurchase == PostPurchaseTurn \/ Resume({LlmInvalid}) \/ CallPurchaseDecision

SpecPurchase == Init /\ [][NextPurchase]_vars

\* ======================================================================
\* Claims about the session store and the purchase decision
\* ======================================================================
PREREQ_KEYS ==
  {"business_card", "demand_letter", "sample_contract_pdf", "coop_contract_pdf"}

\* the keys postRules has a bumpEvidence branch for
RECORDED_KEYS == PREREQ_KEYS \cup Range(OtherEvidenceKeys)

Seen(store, sid) == IF sid \in DOMAIN store THEN DOMAIN store[sid].seenEvidences ELSE {}

Count(store, sid, k) == IF k \in Seen(store, sid) THEN store[sid].seenEvidences[k].count ELSE 0

Committed(store, sid) == sid \in DOMAIN store /\ store[sid].alreadyCommitted

Occurrences(s, k) == Cardinality({ i \in 1..Len(s) : s[i] = k })

\* the last step was a chat turn that reached postRules
TurnAnswered(r) == r.status = 200 /\ r.op \in {"/api/reply", "/chat"}

\* the step is the continuation of a request held at the await
ResumeStep == Len(pending') < Len(pending)

\* the step is a continuation that reached postRules and sent the answer
TurnStep == ResumeStep /\ TurnAnswered(response')

\* the last step was a direct call of applyAliPurchaseDecision
DecisionReturned(r) == r.op = "applyAliPurchaseDecision"

\* the step is a direct call of applyAliPurchaseDecision: no request arrives
\* or is continued
DecisionStep == pending' = pending /\ DecisionReturned(response')

\* C6: once applyAliPurchaseDecision has committed a session, every later
\* invocation for that session returns no decision, whatever the trust and
\* the message, and alreadyCommitted stays true through every later step.
C6_CommitmentPermanent ==
  [][ \A sid \in Sids :
        Committed(sessionState, sid) =>
          /\ Committed(sessionState', sid)
          /\ (DecisionStep /\ call'.sid = sid) => response'.none ]_vars

\* C6 witness: a committed session on which the call was made again with
\* trust 100 and returned no decision.
C6_Witness ==
  /\ DecisionReturned(response) /\ response.none /\ response.trust = 100
  /\ Committed(sessionState, call.sid)

\* C7: applyAliPurchaseDecision returns no decision and leaves
\* alreadyCommitted false whenever the session lacks one of business_card,
\* demand_letter, sample_contract_pdf, coop_contract_pdf or trust is below 70.
C7_NoDecisionWithoutPrereqs ==
  [][ \A sid \in Sids :
        ( /\ DecisionStep /\ call'.sid = sid
          /\ ~Committed(sessionState, sid)
          /\ (~(PREREQ_KEYS \subseteq Seen(sessionState, sid)) \/ response'.trust < 70) )
        => (response'.none /\ ~Committed(sessionState', sid)) ]_vars

\* C7 witness: a call with trust 69 on a session that holds the four keys
\* and whose first draw of the turn is below the probability of trust 80,
\* and a call with trust 100 on a session that lacks a key; neither commits.
C7_Witness ==
  /\ DecisionReturned(response) /\ response.none
  /\ ~Committed(sessionState, call.sid)
  /\ \/ /\ response.trust = 69
        /\ PREREQ_KEYS \subseteq Seen(sessionState, call.sid)
        /\ seededRand(BuySeed(call.sid, sessionState[call.sid].turn), 1)
             < baseProbByTrust(80)
     \/ /\ response.trust = 100
        /\ "demand_letter" \in Seen(sessionState, call.sid)
        /\ "coop_contract_pdf" \notin Seen(sessionState, call.sid)

\* C8 (as claimed): a chat turn invokes the purchase decision, so a turn
\* that leaves a non-committed session with the four prerequisite keys,
\* trust >= 70 and a seeded draw below the purchase probability commits it:
\* alreadyCommitted is set, the stage is Payment and invoice_request is
\* among the actions.  postRules and runLLM never call
\* applyAliPurchaseDecision.
C8_ChatTurnCommits ==
  [][ \A sid \in Sids :
        ( /\ TurnStep /\ call'.sid = sid
          /\ ~Committed(sessionState, sid)
          /\ ~applyAliPurchaseDecision(sessionState'[sid], response'.trust, {}, sid)
                .decision.none )
        => /\ Committed(sessionState', sid)
           /\ response'.stage = "Payment"
           /\ "invoice_request" \in Range(response'.actions) ]_vars

\* C8, what the code does: no chat turn ever sets alreadyCommitted.
C8_ChatNeverCommits == \A sid \in Sids : ~Committed(sessionState, sid)

\* C9: a key already in the session's evidence map is not treated as new on
\* a later turn: it is not in inc, the Contract branch of demand_letter,
\* sample_contract_pdf or coop_contract_pdf (stage, needEvidence,
\* ask_coop_contract) does not run for it again, and its count stays as it
\* was.  A key whose branch runs is recorded by that turn, so the branch
\* runs at most once per key and session.
C9_SeenKeyNotNew ==
  [][ TurnStep =>
        LET seen == Seen(sessionState, call'.sid)
        IN  /\ call'.inc \cap seen = {}
            /\ call'.forced \cap seen = {}
            /\ call'.forced \subseteq Seen(sessionState', call'.sid)
            /\ \A k \in seen \cap {"demand_letter", "sample_contract_pdf",
                                   "coop_contract_pdf"} :
                 Count(sessionState', call'.sid, k) = Count(sessionState, call'.sid, k) ]_vars

\* C9 witness: a second or later turn of a session that submitted
\* demand_letter again; the key was not new and the stage is not Contract.
C9_Witness ==
  /\ TurnAnswered(response)
  /\ sessionState[call.sid].turn >= 2
  /\ "demand_letter" \in Range(call.evidences)
  /\ "demand_letter" \notin call.inc
  /\ call.forced = {}
  /\ response.stage # "Contract"
  /\ Count(sessionState, call.sid, "demand_letter") = 1

\* C10 (as claimed): every repeated submission of an evidence key -- twice
\* in one request, or again on a later turn -- adds one to the key's count.
\* postRules bumps only the keys of inc, a Set of the keys not yet seen.
C10_RepeatIncrementsCount ==
  [][ TurnStep =>
        \A k \in Range(call'.evidences) \cap RECORDED_KEYS :
          (k \in Seen(sessionState, call'.sid) \/ Occurrences(call'.evidences, k) >= 2)
          => Count(sessionState', call'.sid, k)
               = Count(sessionState, call'.sid, k) + Occurrences(call'.evidences, k) ]_vars

\* C10, what the code does: the count of a key other than business_card
\* never exceeds 1.
C10_CountAtMostOne ==
  \A sid \in DOMAIN sessionState :
    \A k \in Seen(sessionState, sid) \ {"business_card"} :
      Count(sessionState, sid, k) = 1

\* ======================================================================
\* Claims about the reply, the actions and the stage of a chat turn
\* ======================================================================
\* the sentences of a reply, and their normal forms
SentencesOf(reply) == Range(splitSentences(reply))

NormSet(reply) == { normPhrase(g) : g \in SentencesOf(reply) }

\* no two sentences of the reply share a normal form
DistinctSentences(reply) ==
  LET ss == splitSentences(reply)
  IN  \A i, j \in 1..Len(ss) : normPhrase(ss[i]) = normPhrase(ss[j]) => i = j

\* the reply the session's preceding turn ended with (S.lastReply)
LastReply(store, sid) == IF sid \in DOMAIN store THEN store[sid].lastReply ELSE << >>

\* C11 (as claimed): the reply repetitionGuard returns on a turn holds no
\* sentence whose normal form is that of a sentence it returned on the
\* session's preceding turn (one turn earlier, inside the cooldown of six),
\* and no two sentences of one reply share a normal form.
C11_NoRepeatWithinCooldown ==
  [][ TurnStep =>
        /\ NormSet(response'.reply) \cap NormSet(LastReply(sessionState, call'.sid)) = {}
        /\ DistinctSentences(response'.reply) ]_vars

\* C11, what the code does: only the filler line, which repetitionGuard
\* returns without entering it in the ledger, is ever repeated.
C11_OnlyFillerRepeats ==
  [][ TurnStep =>
        /\ NormSet(response'.reply) \cap NormSet(LastReply(sessionState, call'.sid))
             \subseteq {"ok"}
        /\ DistinctSentences(response'.reply) ]_vars

\* C12: repetitionGuard never returns an empty reply -- when the reply it
\* is handed is empty, or every sentence of it is filtered out, it returns
\* the filler line -- so the reply of every answered turn, and the
\* lastReply the turn stores, are non-empty.
C12_ReplyNonEmpty ==
  TurnAnswered(response) =>
    /\ response.reply # << >>
    /\ LastReply(sessionState, call.sid) = response.reply
    /\ SentencesOf(call.guardIn) \cap SentencesOf(response.reply) = {}
         => response.reply = << "ok" >>

\* C12 witness: a turn whose postRules handed repetitionGuard a reply with
\* sentences, none of them the filler, every one of which was filtered out;
\* the turn answered with the filler line.
C12_Witness ==
  /\ TurnAnswered(response)
  /\ call.guardIn # << >>
  /\ "ok" \notin Range(call.guardIn)
  /\ response.reply = << "ok" >>

\* ======================================================================
\* Two server processes that are sent requests of one session.  Each
\* process has its own sessionState Map, its own Math.random() and its own
\* requests held at the await; the two run independently of one another,
\* and the second also serves a request of another session that the first
\* never sees.  An observer keeps, for each process, the last invocation of
\* chooseObjection and of applyAliPurchaseDecision.
\* ======================================================================
ReplaySid == "s1"

ReplayBodies ==
  { Body(ReplaySid, {"zdravstvuyte"}, Missing,
         EvArray(<< "Card", "demand", "sample", "contract_pdf", "website" >>),
         DetailsMeta, NoHistory),
    Body(ReplaySid, {"tsena"}, "Payment",
         EvArray(<< "business_card", "demand_letter", "sample_contract_pdf",
                    "coop_contract_pdf" >>),
         DetailsNone, LongHistory) }

ReplayDrafts == { Draft(<< >>, "Closing", -1, Missing, << >>) }

\* the greeting draws sampled in each process
ReplayVariants(llm) == Variants(llm) \cap {1, 3}

\* the arguments of the direct calls of applyAliPurchaseDecision
ReplayTrusts == {90}

ReplayTexts == {TextHandled}

ForeignBodies ==
  { Body("default", {"tsena"}, "Payment", EvArray(<< "contract_pdf" >>), DetailsNone,
         LongHistory) }

\* what a direct call of applyAliPurchaseDecision returned
DecisionSent(trust, d) ==
  [op |-> "applyAliPurchaseDecision", status |-> 0, none |-> d.none, trust |-> trust,
   evidenceCount |-> 0, reply |-> d.reply, stage |-> d.stage,
   needEvidence |-> d.needEvidence, confidence |-> -1, actions |-> d.actions]

\* an invocation of chooseObjection by postRules (line 612) as the observer
\* notes it: the process, the session and its turn number (S.turn, set at
\* line 512), the arguments, the field of the session's record the function
\* reads (S.lastObjection, line 500) and what it returned.  The evidence
\* record is not written after line 608, so uniqEvidence, hasDemand and
\* hasCoop are read off the record the turn leaves.
ObjectionNote(proc, sid, before, after, asked) ==
  [proc |-> proc, fn |-> "chooseObjection", sid |-> sid, turn |-> TurnOf(after, sid),
   inputs  |-> [userText      |-> asked.userText,
                stage         |-> asked.stage,
                uniqEvidence  |-> evidenceCountUnique(after[sid]),
                hasDemand     |-> hasEvidence(after[sid], "demand_letter"),
                hasCoop       |-> hasEvidence(after[sid], "coop_contract_pdf"),
                lastObjection |-> LastObjection(before, sid)],
   outcome |-> asked.result]

\* an invocation of applyAliPurchaseDecision as the observer notes it: the
\* process, the session and its turn number, the arguments, the fields of
\* the session's record the function reads (alreadyCommitted, line 793, and
\* the four prerequisite keys, lines 795-798) and what it returned
DecisionNote(proc, sid, S, trust, userText, decision) ==
  [proc |-> proc, fn |-> "applyAliPurchaseDecision", sid |-> sid, turn |-> S.turn,
   inputs  |-> [trust     |-> trust,
                userText  |-> userText,
                held      |-> { k \in DOMAIN S.seenEvidences :
                                  k \in {"business_card", "demand_letter",
                                         "sample_contract_pdf", "coop_contract_pdf"} },
                committed |-> S.alreadyCommitted],
   outcome |-> decision]

\* the observer's notes with e as the last invocation of its function in
\* its process
Keep(notes, e) ==
  [k \in DOMAIN notes \cup {<< e.proc, e.fn >>} |->
     IF k = << e.proc, e.fn >> THEN e ELSE notes[k]]

\* The client of the replayed session sends a request when the previous one
\* is answered (requests of one session that overlap are the subject of
\* SpecOverlap); the request of the other session arrives at any time.

\* a request of the session arrives at the first process (/api/reply, lines
\* 974-994)
ReplayArrive == \E b \in ReplayBodies : NoneAwaiting /\ ApiReply(b)

\* the first process continues the request it holds (runLLM lines 855-906,
\* then lines 1003-1018): the call of the model settles with a draft
ReplayContinue ==
  \E i \in 1..Len(pending), llm \in ReplayDrafts :
    \E variant \in ReplayVariants(llm) :
      LET p == pending[i]
      IN  /\ Answer(p.op, OrDefault(p.body.sessionId), HeldEvidences(p),
                    TurnOut(i, llm, variant), FALSE)
          /\ pending' = Release(i)
          /\ settled' = IF call'.objection.asked
                        THEN Keep(settled, ObjectionNote("first", call'.sid, sessionState,
                                                         sessionState', call'.objection))
                        ELSE settled
          /\ UNCHANGED << edgeVars, trustVars, twin >>

\* the first process calls applyAliPurchaseDecision({trust, userText, sid})
\* when it holds no request
ReplayDecision ==
  \E trust \in ReplayTrusts, userText \in ReplayTexts :
    LET store1 == getState(sessionState, ReplaySid)
        out    == applyAliPurchaseDecision(store1[ReplaySid], trust, userText, ReplaySid)
    IN  /\ NoneAwaiting
        /\ sessionState' = [store1 EXCEPT ![ReplaySid] = out.S]
        /\ response' = DecisionSent(trust, out.decision)
        /\ call' = [NoCall EXCEPT !.sid = ReplaySid]
        /\ settled' = Keep(settled, DecisionNote("first", ReplaySid, store1[ReplaySid], trust,
                                                 userText, out.decision))
        /\ UNCHANGED << edgeVars, trustVars, twin, pending >>

\* the second process holds a request of the session sid
TwinHolds(sid) ==
  \E i \in 1..Len(twin.pending) : OrDefault(twin.pending[i].body.sessionId) = sid

\* a request arrives at the second process (/api/reply, lines 974-994): one
\* of the replayed session, or the one of the other session, which it is
\* sent once
TwinArrive ==
  \E b \in ReplayBodies \cup ForeignBodies :
    /\ ~TwinHolds(OrDefault(b.sessionId))
    /\ IF b \in ForeignBodies THEN OrDefault(b.sessionId) \notin DOMAIN twin.store
       ELSE TurnOf(twin.store, ReplaySid) < MaxTurns
    /\ b.message # {}
    /\ twin' = [twin EXCEPT !.pending = Append(@, [op |-> "/api/reply", body |-> b])]
    /\ UNCHANGED << edgeVars, trustVars, sessionState, response, call, pending, settled >>

\* the second process continues one of the requests it holds (runLLM lines
\* 855-906): the call of the model settles with a draft, and postRules
\* reads the Map as it is then
TwinContinue ==
  \E i \in 1..Len(twin.pending), llm \in ReplayDrafts :
    \E variant \in ReplayVariants(llm) :
      LET b    == twin.pending[i].body
          sid  == OrDefault(b.sessionId)
          out  == runLLM(twin.store, sanitizeHistory(b.history), b.message, ApiEvidences(b),
                         b.stage, sid, b.evidence_details, llm, variant)
      IN  /\ twin' = [store   |-> out.store,
                      pending |-> SubSeq(twin.pending, 1, i - 1)
                                    \o SubSeq(twin.pending, i + 1, Len(twin.pending))]
          /\ settled' = IF out.objection.asked /\ sid = ReplaySid
                        THEN Keep(settled, ObjectionNote("second", sid, twin.store, out.store,
                                                         out.objection))
                        ELSE settled
          /\ UNCHANGED << edgeVars, trustVars, sessionState, response, call, pending >>

\* the second process calls applyAliPurchaseDecision({trust, userText, sid})
\* when it holds no request
TwinDecision ==
  \E trust \in ReplayTrusts, userText \in ReplayTexts :
    LET store1 == getState(twin.store, ReplaySid)
        out    == applyAliPurchaseDecision(store1[ReplaySid], trust, userText, ReplaySid)
    IN  /\ twin.pending = << >>
        /\ twin' = [twin EXCEPT !.store = [store1 EXCEPT ![ReplaySid] = out.S]]
        /\ settled' = Keep(settled, DecisionNote("second", ReplaySid, store1[ReplaySid], trust,
                                                 userText, out.decision))
        /\ UNCHANGED << edgeVars, trustVars, sessionState, response, call, pending >>

NextReplay ==
  \/ ReplayArrive \/ ReplayContinue \/ ReplayDecision
  \/ TwinArrive \/ TwinContinue \/ TwinDecision

SpecReplay == Init /\ [][NextReplay]_vars

\* the invocations the observer holds
Invocations == Range(settled)

\* two invocations of the same function with the same sessionId, the same
\* turn number and the same inputs
SameInvocation(x, y) ==
  /\ x.fn = y.fn
  /\ x.sid = y.sid
  /\ x.turn = y.turn
  /\ x.inputs = y.inputs

MaxPersonal == 6

PersonalTurn == [role |-> "user", content |-> {"semya"}, stage |-> ""]
BusinessTurn == [role |-> "user", content |-> {"demand", "sayt", "grafik"}, stage |-> ""]

QuotaHistories == UNION { [1..n -> {PersonalTurn, BusinessTurn}] : n \in 0..MaxPersonal }

InitQuota ==
  /\ tBase = Num(Pts(20))
  /\ tEvidences \in SUBSET RawEvidence
  /\ tHistory \in QuotaHistories
  /\ tLast \in {TextPersonal, TextMixed}
  /\ tModule = "none"
  /\ tTrust = "none"
  /\ sessionState = EmptyMap
  /\ response = NoResponse
  /\ call = NoCall
  /\ twin = NoTwin
  /\ pending = << >>
  /\ settled = << >>
  /\ EdgeIdle

SpecQuota == InitQuota /\ [][NextTrust]_vars

\* the score computeTrust hands to personalLifeAdjustment as trustNow
QuotaTrustNow == signalScore(tBase, tEvidences, tHistory, tLast)

\* the adjustment the latest message received, in points
QuotaBonus == personalLifeAdjustment(QuotaTrustNow, tHistory, tLast)

\* the personal questions asked before the latest message
AskedBefore == countPersonalQuestions(tHistory)

\* C14 (as claimed): with trust in the bracket of cap 5 ([70,80)) and three
\* or more personal questions asked earlier in the conversation, a personal
\* question receives the bonus only if it is the fourth or the fifth of the
\* conversation, so at most two questions after the third are rewarded.
C14_AtMostTwoFurther ==
  (tModule = "v11" /\ QuotaTrustNow >= Pts(70) /\ QuotaTrustNow < Pts(80)
     /\ AskedBefore >= 3 /\ QuotaBonus > 0)
  => AskedBefore + 1 <= 5

\* C14, what the code does: the quota is cumulative over the history, but
\* the latest question is rewarded while the number asked before it is
\* within the cap, so question cap + 1 is the last one rewarded; the
\* revision in trust.js has no personal-question adjustment at all.
C14_OneMoreThanCap ==
  /\ (tModule = "v11" /\ QuotaTrustNow >= Pts(40)) =>
       (QuotaBonus > 0
          <=> AskedBefore <= personalQuestionsCapByTrust(QuotaTrustNow).cap)
  /\ tModule = "legacy" =>
       tTrust = computeTrustLegacy(tBase, tEvidences, tHistory, tLast \ {"semya"})

\* ======================================================================
\* The scenario of two Hard proofs and a website (checked under SpecTrust)
\* ======================================================================
ScenarioEvidence == {"demand_letter", "coop_contract_pdf", "website"}

\* baseTrust 20, the three proofs, a latest message that raises no red flag
\* in either revision, and a history with a turn at the candidate stage
Scenario ==
  /\ tBase = Num(Pts(20))
  /\ tEvidences = ScenarioEvidence
  /\ textSignals(tLast).red = {}
  /\ textSignalsLegacy(tLast).red = {}
  /\ "candidate" \in Stages(tHistory)

\* the score before the gates, in the revision that was called
ScenarioRaw ==
  IF tModule = "v11" THEN rawScore(tBase, tEvidences, tHistory, tLast)
  ELSE rawScoreLegacy(tBase, tEvidences, tHistory, tLast)

\* what is left of the gates when none of the three ceilings applies: the
\* early-payment penalty (8 below 75 in v -11, 10 below 90 in trust.js)
PenaltyOnly(score) ==
  LET limit == IF tModule = "v11" THEN Pts(75) ELSE Pts(90)
      fee   == IF tModule = "v11" THEN Pts(8) ELSE Pts(10)
  IN  IF "payment" \in Stages(tHistory) /\ score < limit
      THEN Max(0, score - fee) ELSE score

\* C15 (as claimed): in the scenario computeTrust returns at most 60.
C15_ScenarioAtMost60 == (Scored /\ Scenario) => tTrust <= 60

\* C15 (what the code does): the scenario holds two Hard proofs and one
\* Medium proof, so none of the three ceilings applies and computeTrust
\* returns the rounded score with only the early-payment penalty taken off;
\* the ceiling of Gate 2 (60 in v -11, 80 in trust.js) is met with one Hard
\* proof and no Medium proof, and with one Hard proof and the website the
\* ceiling is that of Gate 3 (75 in v -11, 90 in trust.js).
C15_ScenarioClearsGates ==
  (Scored /\ Scenario) =>
    /\ Kinds.hard = 2 /\ Kinds.med = 1
    /\ tTrust = MathRound(Max(0, Min(Pts(100), PenaltyOnly(ScenarioRaw))))
    /\ Rescore({"demand_letter"}) <= (IF tModule = "v11" THEN 60 ELSE 80)
    /\ Rescore({"demand_letter", "website"}) <= (IF tModule = "v11" THEN 75 ELSE 90)

C15_Witness ==
  /\ Scored /\ Scenario
  /\ tModule = "v11"
  /\ tTrust > 60
  /\ "payment" \notin Stages(tHistory)

\* ======================================================================
\* Suggested actions (checked under Spec)
\* ======================================================================
\* ACTION_ORDER.get(a)
ActionRank(a) == CHOOSE i \in 1..Len(ACTION_ORDER) : ACTION_ORDER[i] = a

\* C16: the suggestedActions a chat turn returns (result.suggestedActions on
\* /chat, meta.actions on /api/reply) hold only members of ACTION_WHITELIST,
\* hold none of them twice, and are in the order of ACTION_ORDER, whatever
\* the draft suggested.
C16_ActionsNormalized ==
  TurnAnswered(response) =>
    /\ Range(response.actions) \subseteq ACTION_WHITELIST
    /\ \A i, j \in 1..Len(response.actions) :
         i < j => ActionRank(response.actions[i]) < ActionRank(response.actions[j])

\* C16 witness: a /chat turn whose draft suggested invoice_request twice,
\* ahead of ask_demands, with an unknown action; the turn returned
\* ask_demands first and invoice_request once.
C16_Witness ==
  /\ TurnAnswered(response)
  /\ response.op = "/chat"
  /\ Len(response.actions) >= 2
  /\ response.actions[1] = "ask_demands"
  /\ "invoice_request" \in Range(response.actions)

\* ======================================================================
\* The stage of a turn (checked under Spec)
\* ======================================================================
\* C17 (as claimed): the stage a chat turn returns is one of the six stages,
\* for every request body and every draft.  /api/reply hands the request's
\* stage to runLLM unvalidated, and runLLM falls back on it.
C17_StageInEnum == TurnAnswered(response) => response.stage \in STAGES

\* C17, restricted to /chat, whose ChatSchema validates the request's stage.
C17_ChatStageInEnum ==
  (TurnAnswered(response) /\ response.op = "/chat") => response.stage \in STAGES

\* ======================================================================
\* Sessions are separate (checked under Spec)
\* ======================================================================
\* C18: a chat turn for one session id leaves the record of every other
\* session id as it was (seenEvidences, evidenceDetails, demandFacts,
\* lastReply, lastObjection, turn, repeatStats, alreadyCommitted) and
\* creates no record for another session id.
C18_OtherSessionsUnchanged ==
  [][ TurnStep =>
        /\ DOMAIN sessionState' = (DOMAIN sessionState) \cup {call'.sid}
        /\ \A sid \in DOMAIN sessionState :
             sid # call'.sid => sessionState'[sid] = sessionState[sid] ]_vars

\* C18 witness: a turn of session s1 answered while the default session,
\* served earlier, holds a turn count, a last reply and evidence of its own.
C18_Witness ==
  /\ TurnAnswered(response)
  /\ call.sid = "s1"
  /\ "default" \in DOMAIN sessionState
  /\ sessionState["default"].turn = 1
  /\ sessionState["default"].lastReply # << >>
  /\ Seen(sessionState, "default") # {}
  /\ sessionState["s1"] # sessionState["default"]

\* ======================================================================
\* Evidence records are kept (checked under Spec)
\* ======================================================================
\* C19: over every step, a session that exists keeps existing, every key
\* recorded in its seenEvidences stays recorded, no record's count goes
\* down, and evidenceCountUnique does not go down.
C19_EvidenceNeverRemoved ==
  [][ \A sid \in DOMAIN sessionState :
        /\ sid \in DOMAIN sessionState'
        /\ Seen(sessionState, sid) \subseteq Seen(sessionState', sid)
        /\ \A k \in Seen(sessionState, sid) :
             Count(sessionState', sid, k) >= Count(sessionState, sid, k)
        /\ evidenceCountUnique(sessionState'[sid]) >= evidenceCountUnique(sessionState[sid])
    ]_vars

\* C19 witness: a session in its second turn, whose request carried no
\* evidence, still holds several keys, one of them counted twice.
C19_Witness ==
  /\ TurnAnswered(response)
  /\ call.sid = "s1"
  /\ call.evidences = << >>
  /\ sessionState["s1"].turn = 2
  /\ evidenceCountUnique(sessionState["s1"]) >= 2
  /\ \E k \in Seen(sessionState, "s1") : Count(sessionState, "s1", k) >= 2

\* ======================================================================
\* A baseTrust that is left out or is not a number (checked under SpecTrust)
\* ======================================================================
\* the revision that was called, applied to another baseTrust
RescoreFrom(base) ==
  IF tModule = "v11" THEN computeTrust(base, tEvidences, tHistory, tLast)
  ELSE computeTrustLegacy(base, tEvidences, tHistory, tLast)

\* C20 (as claimed): when baseTrust is left out or is not a number,
\* computeTrust returns the score it returns for baseTrust 20.
C20_FallbackBase20 ==
  (Scored /\ ~NumericBase) => tTrust = RescoreFrom(Num(Pts(20)))

\* C20 (what the code does): a baseTrust that is left out is scored as 20 in
\* both revisions; one that is not a number is scored as 0 by the v -11
\* revision (Number(x) || 0) and makes trust.js return NaN.
C20_MissingIs20_NaNIs0 ==
  /\ (Scored /\ tBase = Undefined) => tTrust = RescoreFrom(Num(Pts(20)))
  /\ (tModule = "v11" /\ tBase = NotANum) => tTrust = RescoreFrom(Num(0))
  /\ (tModule = "legacy" /\ tBase = NotANum) => tTrust = "NaN"

\* ======================================================================
\* Overlapping requests of one session
\* ======================================================================
\* runLLM suspends once, at `await createChatWithRetry` (line 855), before
\* any read of sessionState; what follows the await (LLMShape.parse,
\* postRules, evidenceCountUnique) has no await and runs to completion as one
\* task of the event loop.  A request is therefore two steps: it arrives and
\* is suspended, and it is resumed with the model's output.  An observer
\* notes every request that is answered (settled).
OverlapBodies ==
  { Body("s1", {"chto_delat"}, "Candidate",
         EvArray(<< "demand_letter", "website" >>), DetailsMeta, LongHistory),
    Body("s1", {"zarplata"}, Missing,
         EvArray(<< "demand", "coop_contract_pdf" >>), DetailsNone, LongHistory),
    Body(Missing, {"tsena"}, "Payment", EvArray(<< "demand_letter" >>), DetailsNone,
         NoHistory) }

OverlapDrafts ==
  { LlmThrow, LlmInvalid,
    Draft(<< "ponyatno", "kakie_sroki", "kakaya_zarplata" >>, Missing, -1, Missing, << >>) }

\* requests of one session arrive while others are held at the await
Arrive == \E b \in OverlapBodies : ApiReply(b)

NextOverlap == Arrive \/ ResumeNoted(OverlapDrafts)

\* requests arrive and the requests held are continued, in any order
SpecOverlap == Init /\ [][NextOverlap]_vars

\* the answered requests of a session, by their place in the order in which
\* they were answered
AnsweredOf(sid) ==
  { i \in 1..Len(settled) : OrDefault(settled[i].body.sessionId) = sid }

\* the outcome of a read-modify-write race: two answered requests of one
\* session took the same key as new, or an increment of the turn counter or
\* of a record count was lost
RaceOutcome ==
  \E sid \in Sids :
    \/ \E i, j \in AnsweredOf(sid) : i # j /\ settled[i].new \cap settled[j].new # {}
    \/ TurnOf(sessionState, sid) < Cardinality(AnsweredOf(sid))
    \/ \E i \in AnsweredOf(sid) :
         \E k \in settled[i].new \cap HARD_PROOFS : Count(sessionState, sid, k) < 1

PhraseCount(store, sid, ns) ==
  IF sid \in DOMAIN store /\ ns \in DOMAIN store[sid].repeatStats.phraseCounts
  THEN store[sid].repeatStats.phraseCounts[ns] ELSE 0

\* what a turn does to the record of its session when nothing is lost: it
\* takes as new (inc) exactly the keys the Map does not hold when the turn
\* runs, adds one to the count of each key it records and to the turn
\* counter, and adds one to the use-count of every sentence it emits
TurnSerial(before, after, sid, evidences, inc, reply) ==
  /\ inc = Range(evidences) \ Seen(before, sid)
  /\ \A k \in Seen(after, sid) :
       /\ Count(after, sid, k) >= Count(before, sid, k)
       /\ k \in inc => Count(after, sid, k) = 1
  /\ TurnOf(after, sid) = TurnOf(before, sid) + 1
  /\ \A ns \in DOMAIN after[sid].repeatStats.phraseCounts :
       PhraseCount(after, sid, ns) >= PhraseCount(before, sid, ns)
  /\ reply # << "ok" >> =>
       \A ns \in NormSet(reply) :
         PhraseCount(after, sid, ns) = PhraseCount(before, sid, ns) + 1

\* two requests of one session have overlapped on the key k: the i-th
\* request held and the j-th request answered both carry k, both arrived
\* when the Map did not hold k, and the answered one took k as new while the
\* other was held at the await
OverlapOn(i, j, k) ==
  LET sid == OrDefault(pending[i].body.sessionId) IN
  /\ OrDefault(settled[j].body.sessionId) = sid
  /\ k \in Range(ApiEvidences(pending[i].body)) \cap settled[j].new
  /\ k \notin Seen(pending[i].store, sid)
  /\ k \notin Seen(settled[j].store, sid)

\* the call of the model can settle for the i-th request held so that the
\* request is answered and takes k as new once more, or an update of a
\* count, of the turn counter or of a phrase use-count is lost
CanRace(i, k) ==
  \E llm \in OverlapDrafts :
    \E variant \in Variants(llm) :
      LET out == TurnOut(i, llm, variant)
      IN  /\ llm.kind # "throw"
          /\ \/ k \in out.inc
             \/ ~TurnSerial(sessionState, out.store, OrDefault(pending[i].body.sessionId),
                            HeldEvidences(pending[i]), out.inc, out.result.reply)

StageOrder == << "Greeting", "Demand", "Contract", "Candidate", "Payment", "Closing" >>

\* the place of a stage in that order, 0 for a value outside it
StageRank(stage) ==
  IF stage \in Range(StageOrder)
  THEN CHOOSE i \in 1..Len(StageOrder) : StageOrder[i] = stage
  ELSE 0

\* the turn just answered ended at Contract because one of the evidence
\* branches of lines 572-594 ran
EvidenceDrivenContract ==
  TurnAnswered(response) /\ call.forced # {} /\ response.stage = "Contract"

\* C22 (as claimed): after a turn whose stage advanced because of submitted
\* evidence, the next turn of that session does not return an earlier stage
\* (a return to Contract excepted).  The session record keeps no stage:
\* postRules starts every turn from the draft's or the request's stage.
C22_StageNeverRegresses ==
  [][ (EvidenceDrivenContract /\ TurnStep /\ call'.sid = call.sid) =>
        \/ StageRank(response'.stage) >= StageRank(response.stage)
        \/ response'.stage = "Contract" ]_vars

\* ======================================================================
\* Suggested actions and the evidence held (checked under Spec)
\* ======================================================================
\* C23 (as claimed): the suggestedActions of a turn hold no ask_demands when
\* the session has demand_letter recorded and no ask_coop_contract when it
\* has coop_contract_pdf recorded.  The draft's own suggestions are taken
\* over as they are, and the rule for 'what is needed' adds both actions
\* without looking at the evidence.
C23_NoAskForHeldEvidence ==
  TurnAnswered(response) =>
    /\ hasEvidence(sessionState[call.sid], "demand_letter")
         => "ask_demands" \notin Range(response.actions)
    /\ hasEvidence(sessionState[call.sid], "coop_contract_pdf")
         => "ask_coop_contract" \notin Range(response.actions)

\* ======================================================================
\* Keys outside the recorded vocabulary (checked under Spec)
\* ======================================================================
\* C24 (as claimed): after a turn, every normalized key the request carried
\* has a record in seenEvidences (so evidenceCount counts it).  postRules
\* records only the keys its branches name: business_card, demand_letter,
\* sample_contract_pdf, coop_contract_pdf and the eleven keys of line 596.
C24_EveryKeyRecorded ==
  TurnAnswered(response) =>
    (Range(call.evidences) \ {""}) \subseteq Seen(sessionState, call.sid)

\* C24, for the keys postRules names: each of them carried by a request has
\* a record after the turn.
C24_NamedKeysRecorded ==
  TurnAnswered(response) =>
    (Range(call.evidences) \cap RECORDED_KEYS) \subseteq Seen(sessionState, call.sid)

\* ======================================================================
\* chooseObjection, called directly
\* ======================================================================
ObjectionTexts ==
  { {"chto_delat"}, {"tsena"}, {"work_permit"}, {"slot"}, {"schet"} }

\* uniqEvidence, hasDemand and hasCoop of a call
ObjectionArgs ==
  { [uniqEvidence |-> 1, hasDemand |-> TRUE, hasCoop |-> FALSE],
    [uniqEvidence |-> 2, hasDemand |-> TRUE, hasCoop |-> TRUE] }

ObjectionStages == {"Closing", "Payment"}

\* the turn of /api/reply that calls chooseObjection through postRules
ObjectionBodies ==
  { Body("s1", {"tsena"}, "Payment", EvArray(<< "demand_letter" >>), DetailsNone,
         LongHistory) }

PostObjectionTurn == \E b \in ObjectionBodies : ApiReply(b)

\* chooseObjection({sid, userText, uniqEvidence, hasDemand, hasCoop, stage})
\* called by a caller of its own: postRules calls it only with a trigger.
\* As with applyAliPurchaseDecision the caller calls when no request is held.
CallChooseObjection ==
  \E sid \in Sids, userText \in ObjectionTexts, a \in ObjectionArgs,
     stage \in ObjectionStages :
     LET Chose(store1, co) ==
           /\ sessionState' = [store1 EXCEPT ![sid] = co.S]
           /\ response' = [op |-> "chooseObjection", status |-> 0,
                           none |-> co.obj.none, trust |-> 0,
                           evidenceCount |-> a.uniqEvidence,
                           reply |-> IF co.obj.none THEN << >> ELSE << co.obj.text >>,
                           stage |-> co.obj.stage,
                           needEvidence |-> FALSE, confidence |-> -1,
                           actions |-> << >>]
           /\ call' = [NoCall EXCEPT !.sid = sid,
                                     !.objection = [NoAsk EXCEPT !.asked = TRUE,
                                                                 !.userText = userText,
                                                                 !.stage = stage,
                                                                 !.result = co.obj]]
           /\ UNCHANGED << edgeVars, trustVars, twin, pending, settled >>
     IN  /\ NoneAwaiting
         /\ Chose(getState(sessionState, sid),
                  chooseObjection(getState(sessionState, sid)[sid], sid, userText,
                                  a.uniqEvidence, a.hasDemand, a.hasCoop, stage))

NextObjection == PostObjectionTurn \/ Resume({LlmInvalid}) \/ CallChooseObjection

SpecObjection == Init /\ [][NextObjection]_vars

\* a message that mentions price, a work permit, slots/queue or payment
MentionsTrigger(userText) ==
  \/ Test(RxObjection.PriceTalk, userText) \/ Test(RxObjection.Permit, userText)
  \/ Test(RxObjection.Slots, userText) \/ Test(RxObjection.MentionsPay, userText)

ChoseObjection(r) == r.op = "chooseObjection"

\* the step is a direct call of chooseObjection
ObjectionStep == pending' = pending /\ ChoseObjection(response')

\* C25: a call of chooseObjection with no price, permit, slot or payment
\* word in the message and a stage other than Payment returns null and
\* leaves the session's lastObjection as it was; a call with such a word or
\* with stage Payment returns a line, which becomes the lastObjection.
C25_NullWithoutTrigger ==
  [][ ObjectionStep =>
        LET a == call'.objection
            sid == call'.sid
        IN  IF ~MentionsTrigger(a.userText) /\ a.stage # "Payment"
            THEN /\ response'.none
                 /\ response'.reply = << >>
                 /\ LastObjection(sessionState', sid) = LastObjection(sessionState, sid)
            ELSE /\ ~response'.none
                 /\ Len(response'.reply) = 1
                 /\ response'.reply[1] # ""
                 /\ LastObjection(sessionState', sid) = response'.reply[1] ]_vars

\* a session is asked at stage Payment without a trigger word
C25_WitnessPayment ==
  /\ ChoseObjection(response)
  /\ ~MentionsTrigger(call.objection.userText)
  /\ call.objection.stage = "Payment"
  /\ ~response.none
  /\ response.reply = << "akkuratno" >>
  /\ LastObjection(sessionState, call.sid) = "akkuratno"

\* a session that holds an objection is asked without a trigger
C25_Witness ==
  /\ ChoseObjection(response)
  /\ ~MentionsTrigger(call.objection.userText)
  /\ call.objection.stage = "Closing"
  /\ response.none
  /\ LastObjection(sessionState, call.sid) = "delay_check"

\* C26: a line returned by chooseObjection differs, letter case aside, from
\* the line it returned last for the session (lastObjection): a draw equal
\* to it is replaced by the fallback line, and after the fallback line the
\* draw itself is returned.
C26_NoLineTwiceInARow ==
  [][ (ObjectionStep /\ ~response'.none) =>
        LET sid  == call'.sid
            last == LastObjection(sessionState, sid)
            line == response'.reply[1]
        IN  /\ LowerSentence(line) # LowerSentence(last)
            /\ last = "akkuratno" => line # "akkuratno"
            /\ line = "akkuratno" => last \in (Range(poolBudget) \cup Range(poolAfterPermit)
                                                \cup Range(poolSlots) \cup Range(poolDelay)) ]_vars

\* the session's last line was drawn again and the fallback line came back
C26_Witness ==
  /\ ChoseObjection(response)
  /\ call.objection.userText = {"slot"}
  /\ response.reply = << "akkuratno" >>
  /\ LastObjection(sessionState, call.sid) = "akkuratno"

\* ======================================================================
\* The objection step of postRules (checked under Spec)
\* ======================================================================
\* the stage chooseObjection suggests for what the session holds
SuggestedStage(store, sid) ==
  IF ~hasEvidence(store[sid], "demand_letter") THEN "Demand"
  ELSE IF ~hasEvidence(store[sid], "coop_contract_pdf") THEN "Contract"
  ELSE "Payment"

\* a turn whose stage was Payment at the objection step, with trust below 90
PaymentBelow90 ==
  /\ TurnAnswered(response)
  /\ call.objection.stage = "Payment"
  /\ response.trust < 90

\* C27: when the stage reaching the objection step (line 611) is Payment
\* and trust is below 90, chooseObjection is asked and returns a line, the
\* step leaves that line as the reply and the suggested stage as the stage
\* (Demand without demand_letter, else Contract without coop_contract_pdf,
\* else Payment), and that stage is the stage of the response; the reply of
\* the response is the line, or the filler where the later guards drop it.
C27_ObjectionAtPayment ==
  PaymentBelow90 =>
    LET o == call.objection
    IN  /\ o.asked
        /\ ~o.result.none
        /\ o.result.text \in (Range(poolBudget) \cup Range(poolAfterPermit)
                               \cup Range(poolSlots) \cup Range(poolDelay) \cup {"akkuratno"})
        /\ o.reply = << o.result.text >>
        /\ o.stageOut = SuggestedStage(sessionState, call.sid)
        /\ response.stage = SuggestedStage(sessionState, call.sid)
        /\ response.reply \in { << o.result.text >>, << "ok" >> }

\* the draft said Payment, the session holds both documents and trust is
\* below 90: the turn answers with an objection and stays at Payment
C27_Witness ==
  /\ PaymentBelow90
  /\ hasEvidence(sessionState[call.sid], "demand_letter")
  /\ hasEvidence(sessionState[call.sid], "coop_contract_pdf")
  /\ ~Test(RxPostRules.ObjectionTrigger, call.objection.userText)
  /\ response.reply = << call.objection.result.text >>
  /\ response.stage = "Payment"

C27_WitnessDemand ==
  /\ PaymentBelow90
  /\ ~hasEvidence(sessionState[call.sid], "demand_letter")
  /\ response.stage = "Demand"

\* ======================================================================
\* repetitionGuard: questions and the phrase ledger (checked under Spec)
\* ======================================================================
\* the sentences of a reply that end with a question mark, by position
Questions(reply) ==
  LET ss == splitSentences(reply)
  IN  { i \in 1..Len(ss) : EndsWithQuestion(ss[i]) }

\* S.repeatStats.lastUsedTurn.get(ns) ?? -999
LastUsedTurn(store, sid, ns) ==
  IF sid \in DOMAIN store /\ ns \in DOMAIN store[sid].repeatStats.lastUsedTurn
  THEN store[sid].repeatStats.lastUsedTurn[ns] ELSE -999

\* C28: the reply of a turn, which is what repetitionGuard returned, has at
\* most one sentence ending with a question mark, and a question sentence
\* of the guard's input that is not in that reply has the same use-count
\* and last-used turn in the ledger after the turn as before it.
C28_AtMostOneQuestion ==
  /\ [](TurnAnswered(response) => Cardinality(Questions(response.reply)) <= MAX_QUESTIONS_IN_MSG)
  /\ [][ TurnStep =>
           \A i \in Questions(call'.guardIn) :
              LET q == splitSentences(call'.guardIn)[i]
              IN  q \notin SentencesOf(response'.reply) =>
                    /\ PhraseCount(sessionState', call'.sid, normPhrase(q))
                         = PhraseCount(sessionState, call'.sid, normPhrase(q))
                    /\ LastUsedTurn(sessionState', call'.sid, normPhrase(q))
                         = LastUsedTurn(sessionState, call'.sid, normPhrase(q)) ]_vars

\* the guard was handed two new questions: the first is in the reply and in
\* the ledger, the second in neither
C28_Witness ==
  /\ TurnAnswered(response)
  /\ Cardinality(Questions(call.guardIn)) >= 2
  /\ Cardinality(Questions(response.reply)) = 1
  /\ "kakie_sroki" \in Range(response.reply)
  /\ PhraseCount(sessionState, call.sid, "kakie_sroki") = 1
  /\ "kakaya_zarplata" \in Range(call.guardIn)
  /\ "kakaya_zarplata" \notin Range(response.reply)
  /\ PhraseCount(sessionState, call.sid, "kakaya_zarplata") = 0

\* C29 (as claimed): over a session repetitionGuard returns each normalized
\* sentence at most once -- no sentence of a turn's reply was returned on
\* the session's preceding turn or has a use-count in the ledger from any
\* earlier turn -- and no use-count exceeds 1.  The filler of line 465 is
\* returned without a ledger entry, turn after turn.
C29_EachSentenceOnce ==
  /\ [](\A sid \in DOMAIN sessionState :
          \A ns \in DOMAIN sessionState[sid].repeatStats.phraseCounts :
             sessionState[sid].repeatStats.phraseCounts[ns] <= MAX_SAME_PHRASE)
  /\ [][ TurnStep =>
           \A ns \in NormSet(response'.reply) :
              /\ ns \notin NormSet(LastReply(sessionState, call'.sid))
              /\ PhraseCount(sessionState, call'.sid, ns) = 0 ]_vars

\* C29, what the code does: no use-count exceeds 1, and a sentence with a
\* use-count from an earlier turn is not returned again, the filler apart.
C29_OnlyFillerReturnedAgain ==
  /\ [](\A sid \in DOMAIN sessionState :
          \A ns \in DOMAIN sessionState[sid].repeatStats.phraseCounts :
             sessionState[sid].repeatStats.phraseCounts[ns] = 1)
  /\ [][ TurnStep =>
           \A ns \in NormSet(response'.reply) \ {"ok"} :
              /\ ns \notin NormSet(LastReply(sessionState, call'.sid))
              /\ PhraseCount(sessionState, call'.sid, ns) = 0
              /\ PhraseCount(sessionState', call'.sid, ns) = 1 ]_vars

\* ======================================================================
\* The micro-credit of computeTrust (part_000 and part_001), called on
\* histories long enough to fill and to leave the window of six messages
\* ======================================================================
MaxMicro == 8

PayTurn   == [role |-> "user", content |-> {"schet", "pozhaluysta"}, stage |-> ""]
TalkTurn  == [role |-> "user", content |-> {"kak_vas_zovut", "gorod"}, stage |-> ""]

MicroHistories == UNION { [1..n -> {PayTurn, TalkTurn}] : n \in 0..MaxMicro }

MicroEvidence == {"demand_letter", "website", "business_card"}

InitMicro ==
  /\ tBase \in {Num(Pts(20)), Undefined}
  /\ tEvidences \in SUBSET MicroEvidence
  /\ tHistory \in MicroHistories
  /\ tLast \in {TextEmpty, TextBusiness, TextPersonal}
  /\ tModule = "none"
  /\ tTrust = "none"
  /\ sessionState = EmptyMap
  /\ response = NoResponse
  /\ call = NoCall
  /\ twin = NoTwin
  /\ pending = << >>
  /\ settled = << >>
  /\ EdgeIdle

\* a call of computeTrust as exported by part_001
CallComputeTrustV5 ==
  /\ tModule = "none"
  /\ tModule' = "v5"
  /\ tTrust' = computeTrustV5(tBase, tEvidences, tHistory, tLast)
  /\ UNCHANGED << edgeVars, tBase, tEvidences, tHistory, tLast, sessionState, response, call, twin, pending, settled >>

NextMicro == CallComputeTrust \/ CallComputeTrustV5

SpecMicro == InitMicro /\ [][NextMicro]_vars

\* how many of the last six user messages mention payment or an invoice
PayMentions ==
  Len(SelectSeq(SliceLast(SelectSeq(tHistory, IsUser), 6),
                LAMBDA m : Test(RxPay, m.content)))

\* repeated payment mentions while the evidence does not pass Gate 2
EarlyPayPressure == PayMentions >= 2 /\ ~PassGate2

\* what dialogMicroCredits returned to the revision that was called
MicroOfCall ==
  IF tModule = "v5" THEN dialogMicroCreditsV5(tHistory)
  ELSE [uniqInfoKeysCount |-> dialogMicroCredits(tHistory, Kinds.hard, Kinds.med).uniqInfoKeysCount,
        recentEarlyPayPressure |->
          dialogMicroCredits(tHistory, Kinds.hard, Kinds.med).recentEarlyPayPressure,
        threw |-> FALSE]

\* the call returned a score
Completed == ~MicroOfCall.threw

\* C30 (as claimed): a call of computeTrust completes and returns a score
\* between 0 and 100, and the flat micro-credit of one point is granted
\* exactly when it is not the case that two or more of the last six user
\* messages mention payment while the evidence does not pass Gate 2.  In
\* part_001 dialogMicroCredits reads passGate2 before computeTrust has
\* initialised it, and the call throws whenever two of the six mention
\* payment.
C30_CreditUnlessEarlyPay ==
  (tModule \in {"v11", "v5"}) =>
    /\ Completed
    /\ Completed => tTrust \in 0..100
    /\ (Completed /\ microCredit(MicroOfCall) = Pts(1)) <=> ~EarlyPayPressure

\* C30, what the code does: the revision of part_000 completes on every
\* call and grants the credit exactly without early payment pressure; the
\* revision of part_001 completes exactly when fewer than two of the last
\* six user messages mention payment, and then grants the credit.
C30_V11GrantsV5Throws ==
  /\ tModule = "v11" =>
       /\ tTrust \in 0..100
       /\ microCredit(MicroOfCall) = Pts(1) <=> ~EarlyPayPressure
  /\ tModule = "v5" =>
       /\ Completed <=> PayMentions < 2
       /\ Completed => (tTrust \in 0..100 /\ microCredit(MicroOfCall) = Pts(1))

\* part_000 called with two payment mentions inside the window and no proof:
\* no credit, and a score
C30_WitnessV11 ==
  /\ tModule = "v11"
  /\ Len(tHistory) = MaxMicro
  /\ PayMentions = 2
  /\ EarlyPayPressure
  /\ microCredit(MicroOfCall) = 0
  /\ tTrust \in 0..100

\* part_001 called with two payment mentions, one of them older than the
\* window
C30_WitnessV5 ==
  /\ tModule = "v5"
  /\ Len(SelectSeq(tHistory, LAMBDA m : Test(RxPay, m.content))) = 2
  /\ PayMentions = 1
  /\ Completed
  /\ tTrust \in 0..100

\* ======================================================================
\* The courtesy bonus of computeTrust (part_000), checked under SpecMicro:
\* the history holds the user's earlier messages, the latest message is
\* the argument lastUserText
\* ======================================================================
UserMsgs == SelectSeq(tHistory, IsUser)

\* the latest message carries a courtesy marker
CourtesyNow == Test(COURTESY_RX, tLast)

\* the user messages of the history, counted back from the latest message,
\* that carry a courtesy marker (1 is the message just before it)
CourtesyBack ==
  { d \in 1..Len(UserMsgs) : Test(COURTESY_RX, UserMsgs[Len(UserMsgs) + 1 - d].content) }

\* the bonus of 0.5 was added to the score of the call
CourtesyGranted == courtesyBonusWithCooldown(tHistory, tLast) = 1

\* C31 (as claimed): the courtesy bonus is granted only when the latest
\* message carries a courtesy marker and none of the six user messages
\* before it does.  The loop of line 262 starts at userMsgs.length - 2, so
\* the user message just before the latest one is never looked at.
C31_CourtesyCooldown ==
  (tModule = "v11" /\ CourtesyGranted) =>
    /\ CourtesyNow
    /\ CourtesyBack \cap (1..COOLDOWN_TURNS) = {}

\* C31, what the code does: the bonus is granted exactly when the latest
\* message carries a marker and none of the second to the seventh user
\* message before it does; a marker in the message just before it, or in
\* the eighth or an older one, does not withhold it.
C31_WindowSkipsPrevious ==
  tModule = "v11" =>
    (CourtesyGranted <=> (CourtesyNow /\ CourtesyBack \cap (2..(COOLDOWN_TURNS + 1)) = {}))

\* ======================================================================
\* Long histories: what is cut and where
\* ======================================================================
\* history entries as a caller sends them: one that carries a stage and one
\* that carries none
StagedTurn(stage) == [role |-> "assistant", content |-> {"okey_ishchite"}, stage |-> stage]
PlainTurn == [role |-> "user", content |-> {"grafik"}, stage |-> Missing]

\* a history of n entries whose oldest entry carries the stage
HistoryOf(n, stage) == [i \in 1..n |-> IF i = 1 THEN StagedTurn(stage) ELSE PlainTurn]

\* lengths around the 50 entries that sanitizeHistory keeps
WindowLengths == {50, 51}

WindowBodies ==
  { Body("s1", {"zarplata"}, Missing, EvArray(<< "demand_letter" >>), DetailsNone,
         HistoryOf(n, stage)) : n \in WindowLengths, stage \in {"Payment", "Contract", Missing} }

\* /api/reply up to the await of runLLM, for a caller with a long history
ArriveWindow == \E b \in WindowBodies : ApiReply(b)

NextWindow == ArriveWindow \/ ResumeNoted(OverlapDrafts)

SpecWindow == Init /\ [][NextWindow]_vars

\* the history with roles and contents normalised as sanitizeHistory does,
\* and every entry kept
WholeHistory(arr) ==
  [i \in 1..Len(arr) |->
     [role    |-> IF arr[i].role = "assistant" THEN "assistant" ELSE "user",
      content |-> arr[i].content,
      stage   |-> arr[i].stage]]

\* the request that the step answers, as the observer notes it
AnsweredNow == settled'[Len(settled')].body

TrustOver(b, history) ==
  ImportedComputeTrust(Num(Pts(20)), Range(ApiEvidences(b)), history, b.message)

\* C32 (as claimed): the history is cut only for the messages sent to the
\* language model; the trust of a chat turn is computed from the full history
\* the caller supplied, however long it is.
C32_TrustFromFullHistory ==
  [][ TurnStep =>
        response'.trust = TrustOver(AnsweredNow, WholeHistory(AnsweredNow.history))
    ]_vars

\* C32 (what the code does): /api/reply hands runLLM sanitizeHistory(b.history),
\* the last 50 entries, and the trust is computed from those; a stage carried
\* by an older entry does not reach the scorer.
C32_TrustFromLast50 ==
  [][ TurnStep =>
        response'.trust = TrustOver(AnsweredNow, sanitizeHistory(AnsweredNow.history))
    ]_vars

\* a turn answered for a history of 51 entries whose oldest entry changes
\* the score
C32_Witness ==
  \E i \in 1..Len(settled) :
    LET b == settled[i].body IN
    /\ i = Len(settled)
    /\ TurnAnswered(response) /\ Len(b.history) = 51
    /\ TrustOver(b, WholeHistory(b.history)) # TrustOver(b, sanitizeHistory(b.history))
    /\ response.trust = TrustOver(b, sanitizeHistory(b.history))

\* ======================================================================
\* The anti-loop of postRules over two turns of a session (under Spec)
\* ======================================================================
\* the session of the step had a turn before and the step answers a turn
FollowingTurn ==
  /\ TurnStep
  /\ LastReply(sessionState, call'.sid) # << >>

\* C33 (as claimed): for a session, the final reply of a postRules turn is
\* never case-insensitively equal to the final reply of the immediately
\* preceding turn, the filler line included.
C33_NeverSameReplyTwice ==
  [][ FollowingTurn =>
        ToLower(response'.reply) # ToLower(LastReply(sessionState, call'.sid)) ]_vars

\* C33, what the code does: the anti-loop of lines 641-643 and the guard of
\* line 646 both answer a repeated reply with the filler line, so a turn
\* repeats the reply of the preceding turn exactly when both are the filler.
C33_OnlyFillerTwice ==
  [][ FollowingTurn =>
        (ToLower(response'.reply) = ToLower(LastReply(sessionState, call'.sid))
           => response'.reply = << "ok" >>) ]_vars

\* ======================================================================
\* The objection step at high and at low trust: turns of /api/reply whose
\* message does or does not carry a trigger word, with documents enough
\* for a trust of 90 or with one document
\* ======================================================================
AllDocs ==
  EvArray(<< "business_card", "demand_letter", "sample_contract_pdf",
             "coop_contract_pdf", "website", "reviews" >>)

TriggerBodies ==
  { Body("s1", message, stage, evidences, DetailsNone, NoHistory) :
      message \in {{"tsena"}, {"schet"}, {"chto_delat"}},
      stage \in {"Payment", Missing},
      evidences \in {AllDocs, EvArray(<< "demand_letter" >>),
                     EvArray(<< "coop_contract_pdf" >>)} }

TriggerDrafts ==
  { LlmThrow, LlmInvalid,
    Draft(<< "spasibo_poluchil", "gotov_kontrakt" >>, "Contract", 55, "true", << >>) }

PostTriggerTurn == \E b \in TriggerBodies : ApiReply(b)

NextTrigger == PostTriggerTurn \/ Resume(TriggerDrafts)

SpecTrigger == Init /\ [][NextTrigger]_vars

\* the objection step of the turn replaced the reply with an objection line
ObjectionReplaced == call.objection.asked /\ ~call.objection.result.none

\* C34 (as claimed): when trust is 90 or higher, postRules never replaces
\* the reply with an objection line.
C34_NoObjectionAt90 ==
  (TurnAnswered(response) /\ response.trust >= 90) => ~ObjectionReplaced

\* C34, what the code does: the condition of line 611 is
\* (stage === 'Payment' && trust < 90) || trigger.test(userText); at a trust
\* of 90 or more the step is entered only on a trigger word, and it then
\* replaces the reply.
C34_ObjectionAt90OnTriggerWord ==
  (TurnAnswered(response) /\ response.trust >= 90) =>
     /\ call.objection.asked => Test(RxPostRules.ObjectionTrigger, call.objection.userText)
     /\ call.objection.asked => ObjectionReplaced

\* a turn at trust 90 whose message names the price: the objection step
\* replaced the reply
C34_Witness ==
  /\ TurnAnswered(response) /\ response.trust >= 90
  /\ ObjectionReplaced
  /\ call.objection.userText = {"tsena"}
  /\ call.objection.reply = << call.objection.result.text >>

\* ======================================================================
\* Stage Payment below a trust of 90 (under Spec)
\* ======================================================================
HoldsBoth(store, sid) ==
  /\ sid \in DOMAIN store
  /\ hasEvidence(store[sid], "demand_letter")
  /\ hasEvidence(store[sid], "coop_contract_pdf")

\* C35: if a postRules turn ends with stage Payment while trust is below
\* 90, the session's evidence map contains both demand_letter and
\* coop_contract_pdf.
C35_PaymentBelow90HoldsBoth ==
  (TurnAnswered(response) /\ response.stage = "Payment" /\ response.trust < 90) =>
     HoldsBoth(sessionState, call.sid)

\* a turn that ended with stage Payment at a trust below 90
C35_Witness ==
  /\ TurnAnswered(response) /\ response.stage = "Payment" /\ response.trust < 90
  /\ call.objection.asked /\ call.objection.result.stage = "Payment"
  /\ HoldsBoth(sessionState, call.sid)

\* ======================================================================
\* The stage chooseObjection suggests to postRules (under Spec)
\* ======================================================================
\* the turn entered the objection step: postRules called chooseObjection
AskedByPostRules == TurnAnswered(response) /\ call.objection.asked

\* C36: when chooseObjection is called from postRules it never suggests
\* stage Candidate: a session holding both demand_letter and
\* coop_contract_pdf has at least 2 unique evidence keys, so the branch
\* 'fewer than 2 unique evidence kinds' is not taken.
C36_NeverSuggestsCandidate ==
  /\ AskedByPostRules => call.objection.result.stage # "Candidate"
  /\ \A sid \in DOMAIN sessionState :
       HoldsBoth(sessionState, sid) => evidenceCountUnique(sessionState[sid]) >= 2

\* postRules called chooseObjection for a session that holds both documents:
\* the suggestion is Payment
C36_Witness ==
  /\ AskedByPostRules
  /\ HoldsBoth(sessionState, call.sid)
  /\ ~call.objection.result.none
  /\ call.objection.result.stage = "Payment"

\* ======================================================================
\* The demand facts of a session over its turns (under Spec)
\* ======================================================================
DemandFactsOf(store, sid) == IF sid \in DOMAIN store THEN getDemandFacts(store[sid]) ELSE EmptyMap

\* the step records demand_letter for the session for the first time
FirstRecorded(sid) ==
  /\ "demand_letter" \notin Seen(sessionState, sid)
  /\ "demand_letter" \in Seen(sessionState', sid)

\* C37: demand facts are extracted and merged into a session only on the
\* turn in which demand_letter is first recorded; on any later turn, and on
\* a turn that does not record it, the demand facts of the session are left
\* as they were, whatever the evidence details carry.
C37_FactsOnlyAtFirstDemand ==
  [][ TurnStep =>
        \A sid \in Sids :
           DemandFactsOf(sessionState', sid) # DemandFactsOf(sessionState, sid) =>
              /\ sid = call'.sid
              /\ FirstRecorded(sid)
              /\ "demand_letter" \in call'.inc ]_vars

\* the second turn of a session sent demand_letter again, now together with
\* the website and with details (demand_meta) that carry other demand data
\* than those of the first turn (demand_text): the facts are those of the
\* first turn
C37_Witness ==
  /\ TurnAnswered(response)
  /\ TurnOf(sessionState, "s1") = 2
  /\ "demand_letter" \in Range(call.evidences)
  /\ "demand_letter" \notin call.inc
  /\ "website" \in call.inc /\ "reviews" \notin Range(call.evidences)
  /\ response.op = "/api/reply"
  /\ Count(sessionState, "s1", "demand_letter") = 1
  /\ DemandFactsOf(sessionState, "s1") = extractDemandFactsFromDetails(DetailsText)
  /\ DemandFactsOf(sessionState, "s1")
       # Merge(extractDemandFactsFromDetails(DetailsText),
               extractDemandFactsFromDetails(DetailsMeta))

\* ======================================================================
\* The turn counter under overlapping requests (under SpecOverlap)
\* ======================================================================
\* the requests of the session of the j-th answered request that were
\* answered no later than it
AnsweredUpTo(j) ==
  { i \in 1..j : OrDefault(settled[i].body.sessionId) = OrDefault(settled[j].body.sessionId) }

\* the i-th request held arrived after another request of its session that
\* is still held
ArrivedLater(i) ==
  \E h \in 1..(i - 1) :
    OrDefault(pending[h].body.sessionId) = OrDefault(pending[i].body.sessionId)

\* the call of the model can settle for the i-th request held now, the
\* requests that arrived before it staying held (Release): the request is
\* answered with the next turn number of its session, and what its postRules
\* takes as new is in the Map
CanBeAnsweredFirst(i) ==
  \E llm \in OverlapDrafts :
    \E variant \in Variants(llm) :
      LET out == TurnOut(i, llm, variant)
          sid == OrDefault(pending[i].body.sessionId)
      IN  /\ llm.kind # "throw"
          /\ TurnOf(out.store, sid) = TurnOf(sessionState, sid) + 1
          /\ out.inc \subseteq Seen(out.store, sid)

\* C38: with overlapping requests of a session the turn counter goes up by
\* exactly one per completed request (one that runLLM answers; a request
\* that arrives, or one whose LLM call throws, leaves it), and the turn
\* numbers are given in the order in which the LLM calls complete, not in
\* the order of arrival: the j-th request answered has the number of
\* requests of its session answered up to it, and a request that arrived
\* after one still held can be answered before it, taking the smaller turn
\* number and applying its session updates first.
C38_TurnPerCompletion ==
  /\ [](\A sid \in Sids : TurnOf(sessionState, sid) = Cardinality(AnsweredOf(sid)))
  /\ [](\A j \in 1..Len(settled) : settled[j].turn = Cardinality(AnsweredUpTo(j)))
  /\ [](\A i \in 1..Len(pending) : ArrivedLater(i) => CanBeAnsweredFirst(i))
  /\ [][ /\ TurnStep =>
              /\ TurnOf(sessionState', call'.sid) = TurnOf(sessionState, call'.sid) + 1
              /\ \A sid \in Sids \ {call'.sid} :
                    TurnOf(sessionState', sid) = TurnOf(sessionState, sid)
         /\ ~TurnStep =>
              \A sid \in Sids : TurnOf(sessionState', sid) = TurnOf(sessionState, sid)
       ]_vars

\* of two different requests of session s1, both arrived before either was
\* answered, the one that arrived later was answered first, while the
\* earlier one was held: it has turn number 1 and its evidence went into the
\* Map first; the earlier one was answered after it and has turn number 2
C38_Witness ==
  /\ pending = << >> /\ Len(settled) = 2
  /\ settled[1].ahead = 1 /\ settled[2].ahead = 0
  /\ \A j \in 1..2 : /\ OrDefault(settled[j].body.sessionId) = "s1"
                     /\ settled[j].store = EmptyMap
  /\ settled[1].body # settled[2].body
  /\ settled[1].turn = 1 /\ settled[2].turn = 2
  /\ settled[1].new # {} /\ settled[1].new \subseteq Seen(sessionState, "s1")
  /\ settled[2].new \cap settled[1].new = {}
  /\ Range(ApiEvidences(settled[2].body)) \cap settled[1].new # {}

\* ======================================================================
\* createChatWithRetry as a program: the loop of lines 394-401, one step
\* per test of the loop and per outcome of the awaited call
\* ======================================================================
\* what groq.chat.completions.create can do: resolve with a response or
\* reject with an error
LlmResponses == {"json_reply", "not_json", "no_choices"}
LlmErrors    == {"timeout", "rate_limited", "server_error"}
Payloads     == {"greeting", "price_question", "documents"}

\* the default of the parameter tries (line 394); runLLM, the only caller,
\* passes the payload alone (line 855)
DEFAULT_TRIES == 2

\* while (--tries): the counter is decremented before it is tested
TriesLeft_PreDecrement(tries) == tries - 1 # 0

\* while (tries--), line 396: the value before the decrement is tested
TriesLeft(tries) == tries # 0

Failed(err)   == [ok |-> FALSE, v |-> err]
Resolved(res) == [ok |-> TRUE, v |-> res]

\* createChatWithRetry(payload) is called
InvokeRetry ==
  \E payload \in Payloads :
    /\ retry.pc \in {"idle", "returned", "thrown"}
    /\ retry' = [pc |-> "test", payload |-> payload, tries |-> DEFAULT_TRIES,
                 lastErr |-> "", value |-> "", attempts |-> << >>]
    /\ UNCHANGED << trustVars, serverVars, rlStore, clock, limited >>

\* the test of the loop: the body is entered and the call issued, or the
\* loop is left and lastErr thrown (line 400)
RetryTest ==
  /\ retry.pc = "test"
  /\ retry' = IF TriesLeft(retry.tries)
              THEN [retry EXCEPT !.pc = "await", !.tries = @ - 1]
              ELSE [retry EXCEPT !.pc = "thrown", !.tries = @ - 1, !.value = retry.lastErr]
  /\ UNCHANGED << trustVars, serverVars, rlStore, clock, limited >>

\* the awaited call resolves: return await ... (line 397)
CallResolves ==
  \E res \in LlmResponses :
    /\ retry.pc = "await"
    /\ retry' = [retry EXCEPT !.pc = "returned", !.value = res,
                              !.attempts = Append(@, Resolved(res))]
    /\ UNCHANGED << trustVars, serverVars, rlStore, clock, limited >>

\* the awaited call rejects: catch (e) { lastErr = e; } (line 398)
CallRejects ==
  \E err \in LlmErrors :
    /\ retry.pc = "await"
    /\ retry' = [retry EXCEPT !.pc = "test", !.lastErr = err,
                              !.attempts = Append(@, Failed(err))]
    /\ UNCHANGED << trustVars, serverVars, rlStore, clock, limited >>

NextRetry == InvokeRetry \/ RetryTest \/ CallResolves \/ CallRejects

SpecRetry == Init /\ [][NextRetry]_vars

\* the calls of the LLM the invocation has issued
CallsIssued == Len(retry.attempts) + (IF retry.pc = "await" THEN 1 ELSE 0)

\* C39: createChatWithRetry calls the LLM at most 2 times per invocation; it
\* returns the first successful response without further calls, and only
\* after 2 consecutive failures it throws, the error of the last attempt.
C39_AtMostTwoCalls ==
  /\ [](/\ CallsIssued <= 2
        /\ retry.pc = "returned" =>
             LET n == Len(retry.attempts) IN
             /\ n \in 1..2
             /\ retry.attempts[n] = Resolved(retry.value)
             /\ \A i \in 1..(n - 1) : ~retry.attempts[i].ok
        /\ retry.pc = "thrown" =>
             /\ Len(retry.attempts) = 2
             /\ \A i \in 1..2 : ~retry.attempts[i].ok
             /\ retry.value = retry.attempts[2].v)
  /\ [][ retry.pc \in {"returned", "thrown"} => retry'.attempts = << >> ]_vars

\* the first call failed and the second succeeded: the response of the
\* second call is returned
C39_Witness ==
  /\ retry.pc = "returned"
  /\ Len(retry.attempts) = 2
  /\ ~retry.attempts[1].ok /\ retry.attempts[2].ok
  /\ retry.value = "json_reply"

\* two calls failed with different errors: the second error is thrown
C39_WitnessThrown ==
  /\ retry.pc = "thrown"
  /\ retry.attempts = << Failed("timeout"), Failed("server_error") >>
  /\ retry.value = "server_error"

\* ======================================================================
\* miniRateLimit as a program: requests of two clients over two windows
\* ======================================================================
RATE_LIMIT == 40
WINDOW_MS  == 60000

\* the requests one client may send while the model follows it
MaxCount == 42
\* the latest instant of the model's clock
MaxClock == 60001

\* a request: its path as the list of its segments, the parts of the header
\* x-forwarded-for between the commas (NoHeader: the header is not sent) and
\* req.ip
Request(path, xff, ip) == [path |-> path, xff |-> xff, ip |-> ip]

NoHeader == << >>

RateRequests ==
  { Request(<< "api", "reply" >>, << " 10.0.0.1", " 172.16.0.1" >>, "192.168.0.7"),
    Request(<< "api", "score" >>, << "" >>, "10.0.0.1"),
    Request(<< "api", "ping" >>, NoHeader, Missing),
    Request(<< "chat" >>, << " 10.0.0.1", " 172.16.0.1" >>, "192.168.0.7") }

\* req.path.startsWith('/api/')
StartsWithApi(path) == Len(path) >= 2 /\ path[1] = "api"

\* String.prototype.trim on an address
TrimAddr(s) ==
  CASE s = " 10.0.0.1"   -> "10.0.0.1"
    [] s = " 172.16.0.1" -> "172.16.0.1"
    [] OTHER             -> s

\* req.headers['x-forwarded-for']?.split(',')[0]?.trim() || req.ip || 'unknown'
ClientIp(req) ==
  LET first == IF req.xff = NoHeader THEN "" ELSE TrimAddr(req.xff[1])
  IN  IF first # "" THEN first ELSE IF req.ip # Missing THEN req.ip ELSE "unknown"

\* Math.ceil(ms / 1000) for ms >= 0
CeilSeconds(ms) == (ms + 999) \div 1000

\* miniRateLimit with the count kept when the window has expired
miniRateLimit_KeepsCount(store, req, now) ==
  IF ~StartsWithApi(req.path)
  THEN [store |-> store, verdict |-> "next", retryAfter |-> 0]
  ELSE LET ip   == ClientIp(req)
           rec0 == IF ip \in DOMAIN store THEN store[ip]
                   ELSE [count |-> 0, reset |-> now + WINDOW_MS]
           rec1 == IF now > rec0.reset THEN [count |-> rec0.count, reset |-> now + WINDOW_MS]
                   ELSE rec0
           rec  == [rec1 EXCEPT !.count = @ + 1]
       IN  [store      |-> Merge(store, [k \in {ip} |-> rec]),
            verdict    |-> IF rec.count > RATE_LIMIT THEN "429" ELSE "next",
            retryAfter |-> IF rec.count > RATE_LIMIT THEN CeilSeconds(rec.reset - now) ELSE 0]

\* miniRateLimit(req, res, next), lines 34-47: the Map afterwards, whether
\* next() was called or 429 sent, and the Retry-After header
miniRateLimit(store, req, now) ==
  IF ~StartsWithApi(req.path)
  THEN [store |-> store, verdict |-> "next", retryAfter |-> 0]
  ELSE LET ip   == ClientIp(req)
           rec0 == IF ip \in DOMAIN store THEN store[ip]
                   ELSE [count |-> 0, reset |-> now + WINDOW_MS]
           rec1 == IF now > rec0.reset THEN [count |-> 0, reset |-> now + WINDOW_MS]
                   ELSE rec0
           rec  == [rec1 EXCEPT !.count = @ + 1]
       IN  [store      |-> Merge(store, [k \in {ip} |-> rec]),
            verdict    |-> IF rec.count > RATE_LIMIT THEN "429" ELSE "next",
            retryAfter |-> IF rec.count > RATE_LIMIT THEN CeilSeconds(rec.reset - now) ELSE 0]

CountOf(store, ip) == IF ip \in DOMAIN store THEN store[ip].count ELSE 0

\* a request passes through the middleware at the present instant
Limit ==
  \E req \in RateRequests :
    LET out == miniRateLimit(rlStore, req, clock)
    IN  /\ CountOf(rlStore, ClientIp(req)) < MaxCount
        /\ rlStore' = out.store
        /\ limited' = [path |-> req.path, ip |-> ClientIp(req), verdict |-> out.verdict,
                       retryAfter |-> out.retryAfter]
        /\ UNCHANGED << trustVars, serverVars, retry, clock >>

\* time passes: a whole window, or a millisecond more
Tick ==
  \E d \in {WINDOW_MS, WINDOW_MS + 1} :
    /\ clock + d <= MaxClock
    /\ clock' = clock + d
    /\ UNCHANGED << trustVars, serverVars, retry, rlStore, limited >>

NextRate == Limit \/ Tick

SpecRate == Init /\ [][NextRate]_vars

\* the step is a request that miniRateLimit counted
Counted == rlStore' # rlStore

\* the window of the client's record is over at the present instant
Expired(ip) == ip \in DOMAIN rlStore /\ clock > rlStore[ip].reset

\* the step is a request of the client inside the window of its record
InWindow(ip) == ip \in DOMAIN rlStore /\ ~Expired(ip)

\* C40: miniRateLimit lets at most 40 requests per client IP reach an /api/
\* handler within one 60-second window and answers every further one in
\* that window with 429; once the window has expired the next request
\* starts a fresh window with count 1; requests to paths outside /api/
\* (/chat among them) are never counted or rejected.
C40_FortyPerWindow ==
  /\ [](/\ \A ip \in DOMAIN rlStore : rlStore[ip].count >= 1
        /\ limited.verdict = "429" =>
             /\ StartsWithApi(limited.path)
             /\ rlStore[limited.ip].count > RATE_LIMIT
        /\ (limited.verdict = "next" /\ StartsWithApi(limited.path)) =>
             rlStore[limited.ip].count <= RATE_LIMIT)
  /\ [][ LET ip == limited'.ip IN
         /\ (limited' # limited \/ Counted) =>
              IF StartsWithApi(limited'.path)
              THEN /\ \A other \in DOMAIN rlStore \ {ip} :
                         other \in DOMAIN rlStore' /\ rlStore'[other] = rlStore[other]
                   /\ IF InWindow(ip)
                      THEN /\ rlStore'[ip].count = rlStore[ip].count + 1
                           /\ rlStore'[ip].reset = rlStore[ip].reset
                           /\ limited'.verdict = "429" <=> rlStore[ip].count >= RATE_LIMIT
                      ELSE /\ rlStore'[ip].count = 1
                           /\ rlStore'[ip].reset = clock + WINDOW_MS
                           /\ limited'.verdict = "next"
              ELSE /\ rlStore' = rlStore
                   /\ limited'.verdict = "next"
       ]_vars

\* the 41st request of a client in one window, sent a whole window after the
\* first: 429 with Retry-After 0
C40_Witness ==
  /\ limited.verdict = "429"
  /\ limited.ip = "10.0.0.1"
  /\ rlStore["10.0.0.1"] = [count |-> RATE_LIMIT + 1, reset |-> WINDOW_MS]
  /\ clock = WINDOW_MS
  /\ limited.retryAfter = 0

\* a client that had been answered 429 starts a fresh window after the old
\* one expired
C40_WitnessFresh ==
  /\ clock = WINDOW_MS + 1
  /\ limited.verdict = "next" /\ limited.ip = "10.0.0.1"
  /\ StartsWithApi(limited.path)
  /\ rlStore["10.0.0.1"] = [count |-> 1, reset |-> clock + WINDOW_MS]
  /\ "unknown" \in DOMAIN rlStore /\ rlStore["unknown"].count > RATE_LIMIT

\* /chat of a client whose window is used up: passed on, not counted
C40_WitnessChat ==
  /\ limited.path = << "chat" >> /\ limited.verdict = "next"
  /\ limited.ip = "10.0.0.1"
  /\ "10.0.0.1" \in DOMAIN rlStore
  /\ rlStore["10.0.0.1"].count > RATE_LIMIT
  /\ ~Expired("10.0.0.1")

====
